---- MODULE Spec2Model ----
(***************************************************************************)
(* Model of the endpoint-discovery pipeline:                               *)
(*   discover_and_chunk : discover_api_files, process_file,                *)
(*                        extract_api_sections, chunk_by_size              *)
(*   invoke_bedrock     : parse_endpoints_from_response,                   *)
(*                        regex_extract_endpoints                          *)
(*   aggregate          : lambda_handler, deduplicate_endpoints            *)
(* Python strings are sequences of one-character strings, so that every    *)
(* conversion (upper-casing, separator collapsing, splitting, joining) is  *)
(* computed character by character.                                        *)
(***************************************************************************)
EXTENDS Integers, Sequences, FiniteSets, TLC

VARIABLES
    results,          \* result files under results/<job>/ : one endpoint list per invocation
    all_endpoints,    \* aggregate.lambda_handler: all_endpoints
    unique_endpoints, \* deduplicate_endpoints: the insertion-ordered dict unique_endpoints
    idx,              \* deduplicate_endpoints: number of candidates the for loop has consumed
    pc,               \* position of the aggregation job
    sections,         \* process_file: sections, the texts to be chunked
    max_size,         \* the character budget handed to chunk_by_size
    sub_chunks,       \* result of chunk_by_size(sections[0], max_size)
    chunks,           \* process_file: chunks, the list it returns
    cpc,              \* position of the chunking run
    relative_path,    \* discover_api_files: relative_path of the file the walk is at
    api_files,        \* discover_api_files: api_files (the relative paths selected)
    dpc,              \* position of the discovery run
    content,          \* process_file: content, the text of the file read
    lang,             \* process_file: lang, the language of the file
    found,            \* extract_api_sections: one record per match it turned into a section
    response_text,    \* invoke_llm: the text the model returned
    parsed,           \* outcome of parse_endpoints_from_response(response_text, ..)
    ppc,              \* position of the parsing run
    shuffled,         \* a reordering of the candidate stream all_endpoints
    unique_shuffled   \* deduplicate_endpoints(shuffled)

rvars == <<results, all_endpoints, unique_endpoints, idx, pc>>

cvars == <<sections, max_size, sub_chunks, chunks, cpc>>

dvars == <<relative_path, api_files, dpc>>

evars == <<content, lang, found>>

pvars == <<response_text, parsed, ppc>>

svars == <<shuffled, unique_shuffled>>

vars == <<rvars, cvars, dvars, evars, pvars, svars>>

(***************************************************************************)
(* The stages run as separate jobs; a specification of one stage holds the *)
(* variables of the other stages at these values.                          *)
(***************************************************************************)
ChunkIdle ==
    /\ sections = <<>>
    /\ max_size = 0
    /\ sub_chunks = <<>>
    /\ chunks = <<>>
    /\ cpc = "idle"

ReconcileIdle ==
    /\ results = <<>>
    /\ all_endpoints = <<>>
    /\ unique_endpoints = <<>>
    /\ idx = 0
    /\ pc = "idle"

DiscoverIdle ==
    /\ relative_path = <<>>
    /\ api_files = <<>>
    /\ dpc = "idle"

ExtractIdle ==
    /\ content = <<>>
    /\ lang = "unknown"
    /\ found = <<>>

ParseIdle ==
    /\ response_text = <<>>
    /\ parsed = <<>>
    /\ ppc = "idle"

ShuffleIdle ==
    /\ shuffled = <<>>
    /\ unique_shuffled = <<>>

(***************************************************************************)
(* Bounds of the model.                                                    *)
(***************************************************************************)
\* number of result files (inference invocations) of one job
MaxResults == 3

\* length of a section text, in characters
MaxTextLen == 3

\* number of sections of one file
MaxSections == 2

\* number of directories above a file of the repository
MaxDirs == 3

\* largest character budget; MAX_CHUNK_SIZE is 4000 in the source and is
\* scaled to the budgets 1..MaxBudget here
MaxBudget == 3

\* the largest number of tokens a file is made of
MaxTokens == 3

\* the largest number of pieces a response text is made of
MaxParts == 3

\* the largest number of candidates of a stream that is reordered
MaxCandidates == 3

(***************************************************************************)
(* Strings.                                                                *)
(***************************************************************************)
LowerLetters == <<"a", "b", "c", "d", "e", "f", "g", "h", "i", "j", "k", "l", "m",
                  "n", "o", "p", "q", "r", "s", "t", "u", "v", "w", "x", "y", "z">>

UpperLetters == <<"A", "B", "C", "D", "E", "F", "G", "H", "I", "J", "K", "L", "M",
                  "N", "O", "P", "Q", "R", "S", "T", "U", "V", "W", "X", "Y", "Z">>

UpperChar(c) ==
    IF \E i \in DOMAIN LowerLetters : LowerLetters[i] = c
    THEN UpperLetters[CHOOSE i \in DOMAIN LowerLetters : LowerLetters[i] = c]
    ELSE c

\* a mis-translation of str.upper that leaves the letter case alone
str_upper_keepcase(s) == s

\* str.upper()
str_upper(s) == [i \in DOMAIN s |-> UpperChar(s[i])]

\* a mis-translation of re.sub(r'/+', '/', path) that substitutes nothing
sub_slashes_none(p) == p

\* re.sub(r'/+', '/', path): every maximal run of '/' becomes one '/'
RECURSIVE sub_slashes(_)
sub_slashes(p) ==
    IF p = <<>> THEN <<>>
    ELSE IF Len(p) >= 2 /\ p[1] = "/" /\ p[2] = "/" THEN sub_slashes(Tail(p))
    ELSE <<p[1]>> \o sub_slashes(Tail(p))

\* if not path.startswith('/'): path = '/' + path
ensure_leading_slash(p) ==
    IF p # <<>> /\ p[1] = "/" THEN p ELSE <<"/">> \o p

(***************************************************************************)
(* Regular expressions.  A pattern is the tree Python's re module parses   *)
(* it to: "str" a literal run, "set" one character in (or, negated, not    *)
(* in) a class, "seq" a concatenation, "alt" an alternation tried left to  *)
(* right, "rep" a greedy or lazy repetition, "grp" a capturing group.      *)
(* Run is the backtracking matcher: it tries the alternatives and the      *)
(* repetition counts in the order re tries them and reports the first      *)
(* complete match.  The items "end" (a group closes) and "adv" (an         *)
(* iteration must have consumed a character) appear only in the list of    *)
(* items still to match.                                                   *)
(***************************************************************************)
Digits == {"0", "1", "2", "3", "4", "5", "6", "7", "8", "9"}

SpaceChars == {" ", "\t", "\n", "\r", "\f"}

WordChars ==
    {LowerLetters[i] : i \in DOMAIN LowerLetters}
        \cup {UpperLetters[i] : i \in DOMAIN UpperLetters} \cup Digits \cup {"_"}

NoCaps == <<<<-1, -1>>, <<-1, -1>>>>

Max(a, b) == IF a >= b THEN a ELSE b

Min(a, b) == IF a <= b THEN a ELSE b

IsPrefixAt(s, text, pos) ==
    /\ pos + Len(s) <= Len(text)
    /\ \A k \in 1..Len(s) : text[pos + k] = s[k]

FailedRun == [ok |-> FALSE, pos |-> -1, caps |-> NoCaps]

\* one iteration less of a repetition
OneLess(node) ==
    [node EXCEPT !.min = Max(0, @ - 1), !.max = IF @ = -1 THEN -1 ELSE @ - 1]

\* the ends a repetition of a one-character item can reach from pos, in the
\* order the matcher tries them: the longest first when greedy, the
\* shortest first when lazy
RunEnds(node, text, pos) ==
    LET fits(p) == p < Len(text) /\ (text[p + 1] \in node.x.chars) # node.x.neg
        limit == IF node.max = -1 THEN Len(text) - pos
                 ELSE Min(node.max, Len(text) - pos)
        run == CHOOSE r \in 0..limit :
                   /\ \A q \in 0..(r - 1) : fits(pos + q)
                   /\ r = limit \/ ~fits(pos + r)
    IN  IF run < node.min THEN <<>>
        ELSE [i \in 1..(run - node.min + 1) |->
                 IF node.greedy THEN pos + run - i + 1 ELSE pos + node.min + i - 1]

RECURSIVE Run(_, _, _)
RECURSIVE TryAlt(_, _, _, _, _)
RECURSIVE TryEnds(_, _, _, _, _)

\* the matcher at state st with the items of todo still to match: the state
\* of the first complete match the backtracking search reaches
Run(todo, text, st) ==
    IF todo = <<>> THEN [ok |-> TRUE, pos |-> st.pos, caps |-> st.caps]
    ELSE LET node == Head(todo)
             rest == Tail(todo)
         IN  CASE node.t = "str" ->
                    IF IsPrefixAt(node.s, text, st.pos)
                    THEN Run(rest, text, [st EXCEPT !.pos = @ + Len(node.s)])
                    ELSE FailedRun
               [] node.t = "set" ->
                    IF /\ st.pos < Len(text)
                       /\ (text[st.pos + 1] \in node.chars) # node.neg
                    THEN Run(rest, text, [st EXCEPT !.pos = @ + 1])
                    ELSE FailedRun
               [] node.t = "seq" -> Run(node.xs \o rest, text, st)
               [] node.t = "alt" -> TryAlt(node.xs, 1, rest, text, st)
               [] node.t = "grp" ->
                    Run(<<node.x, [t |-> "end", n |-> node.n, from |-> st.pos]>>
                          \o rest, text, st)
               [] node.t = "end" ->
                    Run(rest, text, [st EXCEPT !.caps[node.n] = <<node.from, st.pos>>])
               [] node.t = "adv" ->
                    IF st.pos > node.from THEN Run(rest, text, st) ELSE FailedRun
               [] node.t = "rep" ->
                    IF node.x.t = "set"
                    THEN TryEnds(RunEnds(node, text, st.pos), 1, rest, text, st)
                    ELSE LET again == Run(<<node.x, [t |-> "adv", from |-> st.pos],
                                            OneLess(node)>> \o rest, text, st)
                             leave == Run(rest, text, st)
                         IN  IF node.greedy
                             THEN IF node.max # 0 /\ again.ok THEN again
                                  ELSE IF node.min = 0 THEN leave ELSE FailedRun
                             ELSE IF node.min = 0 /\ leave.ok THEN leave
                                  ELSE IF node.max # 0 THEN again ELSE FailedRun

\* the alternatives xs[k..] in turn
TryAlt(xs, k, rest, text, st) ==
    IF k > Len(xs) THEN FailedRun
    ELSE LET r == Run(<<xs[k]>> \o rest, text, st)
         IN  IF r.ok THEN r ELSE TryAlt(xs, k + 1, rest, text, st)

\* the ends[k..] of a repetition in turn
TryEnds(ends, k, rest, text, st) ==
    IF k > Len(ends) THEN FailedRun
    ELSE LET r == Run(rest, text, [st EXCEPT !.pos = ends[k]])
         IN  IF r.ok THEN r ELSE TryEnds(ends, k + 1, rest, text, st)

NoMatch == [found |-> FALSE, start |-> -1, end |-> -1, caps |-> NoCaps]

\* re.search from position pos: the leftmost start with a match, and the
\* first end the matcher reaches from it
RECURSIVE regex_search(_, _, _)
regex_search(node, text, pos) ==
    IF pos > Len(text) THEN NoMatch
    ELSE LET r == Run(<<node>>, text, [pos |-> pos, caps |-> NoCaps])
         IN  IF r.ok
             THEN [found |-> TRUE, start |-> pos, end |-> r.pos, caps |-> r.caps]
             ELSE regex_search(node, text, pos + 1)

\* re.finditer: the non-overlapping matches from left to right
RECURSIVE re_finditer(_, _, _)
re_finditer(node, text, pos) ==
    LET m == regex_search(node, text, pos)
    IN  IF ~m.found THEN <<>>
        ELSE <<m>> \o re_finditer(node, text,
                                  IF m.end > m.start THEN m.end ELSE m.end + 1)

(***************************************************************************)
(* Python string operations.  Offsets are Python's: the first character of *)
(* a text is at offset 0 and text[a:b] holds the characters at offsets     *)
(* a .. b-1.                                                               *)
(***************************************************************************)
\* text[a:b] for 0 <= a
Slice(text, a, b) == SubSeq(text, a + 1, Min(b, Len(text)))

\* text[:b], where a negative b counts from the end
SliceTo(text, b) ==
    IF b < 0 THEN SubSeq(text, 1, Len(text) + b) ELSE SubSeq(text, 1, Min(b, Len(text)))

\* text.find(sub, pos): the lowest offset >= pos where sub occurs, or -1
str_find(text, sub, pos) ==
    LET hits == {k \in pos..Len(text) : IsPrefixAt(sub, text, k)}
    IN  IF hits = {} THEN -1
        ELSE CHOOSE k \in hits : \A j \in hits : k <= j

\* text.lstrip()
RECURSIVE str_lstrip(_)
str_lstrip(text) ==
    IF text # <<>> /\ Head(text) \in SpaceChars THEN str_lstrip(Tail(text)) ELSE text

\* text.rstrip()
RECURSIVE str_rstrip(_)
str_rstrip(text) ==
    IF text # <<>> /\ text[Len(text)] \in SpaceChars
    THEN str_rstrip(SubSeq(text, 1, Len(text) - 1)) ELSE text

\* text.strip()
str_strip(text) == str_rstrip(str_lstrip(text))

(***************************************************************************)
(* invoke_bedrock: parse_endpoints_from_response, JSON branch.             *)
(* A response is the decoded JSON array: a sequence of items.  An item     *)
(* records whether it is a dict and which of the keys 'method' and 'path'  *)
(* it holds; a key that is absent has the value <<>> in the record and is  *)
(* never read.                                                             *)
(***************************************************************************)
Item(m, p) == [is_dict |-> TRUE, has_method |-> TRUE, method |-> m,
               has_path |-> TRUE, path |-> p]

NoMethodItem(p) == [is_dict |-> TRUE, has_method |-> FALSE, method |-> <<>>,
                    has_path |-> TRUE, path |-> p]

NoPathItem(m) == [is_dict |-> TRUE, has_method |-> TRUE, method |-> m,
                  has_path |-> FALSE, path |-> <<>>]

NotADict == [is_dict |-> FALSE, has_method |-> FALSE, method |-> <<>>,
             has_path |-> FALSE, path |-> <<>>]

\* the body of the loop over endpoints_data: zero or one endpoint per item
parse_item(item, repo_name, file_path) ==
    IF item.is_dict /\ item.has_method /\ item.has_path
    THEN LET method == str_upper(item.method)
             path == item.path
         IN  IF path # <<>>
             THEN <<[method |-> method,
                     path |-> ensure_leading_slash(sub_slashes(path)),
                     repo_name |-> repo_name,
                     file_path |-> file_path]>>
             ELSE <<>>
    ELSE <<>>

RECURSIVE parse_endpoints_from_response(_, _, _)
parse_endpoints_from_response(response, repo_name, file_path) ==
    IF response = <<>> THEN <<>>
    ELSE parse_item(Head(response), repo_name, file_path)
         \o parse_endpoints_from_response(Tail(response), repo_name, file_path)

(***************************************************************************)
(* invoke_bedrock: parse_endpoints_from_response on the response text, and *)
(* regex_extract_endpoints.                                                *)
(***************************************************************************)
\* r'\[\s*\{.*\}\s*\]' under re.DOTALL
JSON_ARRAY_RE ==
    [t |-> "seq", xs |-> <<[t |-> "str", s |-> <<"[">>], [t |-> "rep",
      min |-> 0, max |-> -1, greedy |-> TRUE, x |-> [t |-> "set",
      neg |-> FALSE, chars |-> SpaceChars]], [t |-> "str", s |-> <<"{">>],
      [t |-> "rep", min |-> 0, max |-> -1, greedy |-> TRUE,
      x |-> [t |-> "set", neg |-> TRUE, chars |-> {}]], [t |-> "str",
      s |-> <<"}">>], [t |-> "rep", min |-> 0, max |-> -1, greedy |-> TRUE,
      x |-> [t |-> "set", neg |-> FALSE, chars |-> SpaceChars]],
      [t |-> "str", s |-> <<"]">>]>>]

\* the three patterns of regex_extract_endpoints, in the order of the list
FALLBACK_PATTERNS == <<
    [t |-> "seq", xs |-> <<[t |-> "rep", min |-> 0, max |-> 1,
      greedy |-> TRUE, x |-> [t |-> "set", neg |-> FALSE, chars |-> {"\"",
      "'"}]], [t |-> "str", s |-> <<"m", "e", "t", "h", "o", "d">>],
      [t |-> "rep", min |-> 0, max |-> 1, greedy |-> TRUE,
      x |-> [t |-> "set", neg |-> FALSE, chars |-> {"\"", "'"}]],
      [t |-> "str", s |-> <<":">>], [t |-> "rep", min |-> 0, max |-> -1,
      greedy |-> TRUE, x |-> [t |-> "set", neg |-> FALSE,
      chars |-> SpaceChars]], [t |-> "rep", min |-> 0, max |-> 1,
      greedy |-> TRUE, x |-> [t |-> "set", neg |-> FALSE, chars |-> {"\"",
      "'"}]], [t |-> "grp", n |-> 1, x |-> [t |-> "rep", min |-> 1,
      max |-> -1, greedy |-> TRUE, x |-> [t |-> "set", neg |-> FALSE,
      chars |-> {"A", "B", "C", "D", "E", "F", "G", "H", "I", "J", "K", "L",
      "M", "N", "O", "P", "Q", "R", "S", "T", "U", "V", "W", "X", "Y",
      "Z"}]]], [t |-> "rep", min |-> 0, max |-> 1, greedy |-> TRUE,
      x |-> [t |-> "set", neg |-> FALSE, chars |-> {"\"", "'"}]],
      [t |-> "rep", min |-> 0, max |-> -1, greedy |-> FALSE,
      x |-> [t |-> "set", neg |-> TRUE, chars |-> {"\n"}]], [t |-> "rep",
      min |-> 0, max |-> 1, greedy |-> TRUE, x |-> [t |-> "set",
      neg |-> FALSE, chars |-> {"\"", "'"}]], [t |-> "str", s |-> <<"p", "a",
      "t", "h">>], [t |-> "rep", min |-> 0, max |-> 1, greedy |-> TRUE,
      x |-> [t |-> "set", neg |-> FALSE, chars |-> {"\"", "'"}]],
      [t |-> "str", s |-> <<":">>], [t |-> "rep", min |-> 0, max |-> -1,
      greedy |-> TRUE, x |-> [t |-> "set", neg |-> FALSE,
      chars |-> SpaceChars]], [t |-> "rep", min |-> 0, max |-> 1,
      greedy |-> TRUE, x |-> [t |-> "set", neg |-> FALSE, chars |-> {"\"",
      "'"}]], [t |-> "grp", n |-> 2, x |-> [t |-> "rep", min |-> 1,
      max |-> -1, greedy |-> TRUE, x |-> [t |-> "set", neg |-> TRUE,
      chars |-> {"\"", "'", "}"} \cup SpaceChars]]]>>],
    [t |-> "seq", xs |-> <<[t |-> "grp", n |-> 1, x |-> [t |-> "rep",
      min |-> 1, max |-> -1, greedy |-> TRUE, x |-> [t |-> "set",
      neg |-> FALSE, chars |-> {"A", "B", "C", "D", "E", "F", "G", "H", "I",
      "J", "K", "L", "M", "N", "O", "P", "Q", "R", "S", "T", "U", "V", "W",
      "X", "Y", "Z"}]]], [t |-> "rep", min |-> 1, max |-> -1,
      greedy |-> TRUE, x |-> [t |-> "set", neg |-> FALSE,
      chars |-> SpaceChars]], [t |-> "set", neg |-> FALSE, chars |-> {"\"",
      "'"}], [t |-> "grp", n |-> 2, x |-> [t |-> "seq",
      xs |-> <<[t |-> "str", s |-> <<"/">>], [t |-> "rep", min |-> 1,
      max |-> -1, greedy |-> TRUE, x |-> [t |-> "set", neg |-> TRUE,
      chars |-> {"\"", "'", "}"} \cup SpaceChars]]>>]]>>],
    [t |-> "seq", xs |-> <<[t |-> "str", s |-> <<"m", "e", "t", "h", "o",
      "d", ":">>], [t |-> "rep", min |-> 0, max |-> -1, greedy |-> TRUE,
      x |-> [t |-> "set", neg |-> FALSE, chars |-> SpaceChars]],
      [t |-> "grp", n |-> 1, x |-> [t |-> "rep", min |-> 1, max |-> -1,
      greedy |-> TRUE, x |-> [t |-> "set", neg |-> FALSE, chars |-> {"A",
      "B", "C", "D", "E", "F", "G", "H", "I", "J", "K", "L", "M", "N", "O",
      "P", "Q", "R", "S", "T", "U", "V", "W", "X", "Y", "Z"}]]],
      [t |-> "rep", min |-> 0, max |-> -1, greedy |-> FALSE,
      x |-> [t |-> "set", neg |-> TRUE, chars |-> {"\n"}]], [t |-> "str",
      s |-> <<"p", "a", "t", "h", ":">>], [t |-> "rep", min |-> 0,
      max |-> -1, greedy |-> TRUE, x |-> [t |-> "set", neg |-> FALSE,
      chars |-> SpaceChars]], [t |-> "grp", n |-> 2, x |-> [t |-> "seq",
      xs |-> <<[t |-> "str", s |-> <<"/">>], [t |-> "rep", min |-> 1,
      max |-> -1, greedy |-> TRUE, x |-> [t |-> "set", neg |-> TRUE,
      chars |-> {",", "}"} \cup SpaceChars]]>>]]>>]>>

(***************************************************************************)
(* json.loads for the JSON texts made of objects, arrays, strings without  *)
(* escapes and the literals null, true and false.  A decoded value is      *)
(* [k |-> "str", v |-> text], [k |-> "lit", v |-> name],                   *)
(* [k |-> "arr", items |-> values] or [k |-> "obj", members |-> pairs].    *)
(* A result is [ok, val, pos]: ok is FALSE where json.loads raises         *)
(* JSONDecodeError.                                                        *)
(***************************************************************************)
JsonSpace == {" ", "\t", "\n", "\r"}

JsonControl == {"\t", "\n", "\r", "\f"}

JsonFail == [ok |-> FALSE, val |-> [k |-> "lit", v |-> "null"], pos |-> 0]

JsonLiterals == <<<<"n", "u", "l", "l">>, <<"t", "r", "u", "e">>,
                  <<"f", "a", "l", "s", "e">>>>

RECURSIVE skip_ws(_, _)
skip_ws(text, pos) ==
    IF pos < Len(text) /\ text[pos + 1] \in JsonSpace THEN skip_ws(text, pos + 1)
    ELSE pos

CharAt(text, pos) == IF pos < Len(text) THEN text[pos + 1] ELSE ""

\* a string whose opening quote is at offset pos - 1
json_string(text, pos) ==
    LET close == str_find(text, <<"\"">>, pos)
        body == Slice(text, pos, close)
    IN  IF close = -1 \/ \E i \in DOMAIN body : body[i] \in JsonControl \cup {"\\"}
        THEN JsonFail
        ELSE [ok |-> TRUE, val |-> [k |-> "str", v |-> body], pos |-> close + 1]

RECURSIVE json_value(_, _)
RECURSIVE json_elements(_, _, _)
RECURSIVE json_members(_, _, _)

\* the value that starts at offset pos
json_value(text, pos) ==
    LET c == CharAt(text, pos)
        lits == {i \in DOMAIN JsonLiterals : IsPrefixAt(JsonLiterals[i], text, pos)}
    IN  IF c = "\"" THEN json_string(text, pos + 1)
        ELSE IF c = "[" THEN
            LET p == skip_ws(text, pos + 1)
            IN  IF CharAt(text, p) = "]"
                THEN [ok |-> TRUE, val |-> [k |-> "arr", items |-> <<>>], pos |-> p + 1]
                ELSE json_elements(text, p, <<>>)
        ELSE IF c = "{" THEN
            LET p == skip_ws(text, pos + 1)
            IN  IF CharAt(text, p) = "}"
                THEN [ok |-> TRUE, val |-> [k |-> "obj", members |-> <<>>], pos |-> p + 1]
                ELSE json_members(text, p, <<>>)
        ELSE IF lits # {} THEN
            LET i == CHOOSE j \in lits : TRUE
            IN  [ok |-> TRUE, val |-> [k |-> "lit", v |-> JsonLiterals[i]],
                 pos |-> pos + Len(JsonLiterals[i])]
        ELSE JsonFail

\* the elements of an array from offset pos, acc being those read so far
json_elements(text, pos, acc) ==
    LET r == json_value(text, pos)
        p == skip_ws(text, r.pos)
        c == CharAt(text, p)
    IN  IF ~r.ok THEN JsonFail
        ELSE IF c = "]"
        THEN [ok |-> TRUE, val |-> [k |-> "arr", items |-> Append(acc, r.val)],
              pos |-> p + 1]
        ELSE IF c = ","
        THEN json_elements(text, skip_ws(text, p + 1), Append(acc, r.val))
        ELSE JsonFail

\* the members of an object from offset pos, acc being those read so far
json_members(text, pos, acc) ==
    IF CharAt(text, pos) # "\"" THEN JsonFail
    ELSE LET key == json_string(text, pos + 1)
             colon == skip_ws(text, key.pos)
             r == json_value(text, skip_ws(text, colon + 1))
             p == skip_ws(text, r.pos)
             c == CharAt(text, p)
         IN  IF ~key.ok \/ CharAt(text, colon) # ":" THEN JsonFail
             ELSE IF ~r.ok THEN JsonFail
             ELSE IF c = "}"
             THEN [ok |-> TRUE,
                   val |-> [k |-> "obj",
                            members |-> Append(acc, <<key.val.v, r.val>>)],
                   pos |-> p + 1]
             ELSE IF c = ","
             THEN json_members(text, skip_ws(text, p + 1),
                               Append(acc, <<key.val.v, r.val>>))
             ELSE JsonFail

\* json.loads(text)
json_loads(text) ==
    LET r == json_value(text, skip_ws(text, 0))
    IN  IF r.ok /\ skip_ws(text, r.pos) = Len(text) THEN r ELSE JsonFail

MethodKey == <<"m", "e", "t", "h", "o", "d">>

PathKey == <<"p", "a", "t", "h">>

\* key in endpoint
has_key(obj, key) == \E i \in DOMAIN obj.members : obj.members[i][1] = key

\* endpoint[key]: the value of the last member with that key
get_key(obj, key) ==
    LET hits == {i \in DOMAIN obj.members : obj.members[i][1] = key}
    IN  obj.members[CHOOSE i \in hits : \A j \in hits : j <= i][2]

\* a decoded array element as the loop over endpoints_data reads it; a value
\* that is not a str is kept as <<>>
decoded_item(val) ==
    IF val.k # "obj"
    THEN [is_dict |-> FALSE, has_method |-> FALSE, method |-> <<>>,
          has_path |-> FALSE, path |-> <<>>, method_is_str |-> FALSE]
    ELSE LET hm == has_key(val, MethodKey)
             hp == has_key(val, PathKey)
             ms == hm /\ get_key(val, MethodKey).k = "str"
             ps == hp /\ get_key(val, PathKey).k = "str"
         IN  [is_dict |-> TRUE,
              has_method |-> hm,
              method |-> IF ms THEN get_key(val, MethodKey).v ELSE <<>>,
              has_path |-> hp,
              path |-> IF ps THEN get_key(val, PathKey).v ELSE <<>>,
              method_is_str |-> ms]

\* endpoint['method'].upper() raises AttributeError on a value without upper
loop_raises(items) ==
    \E i \in DOMAIN items :
        /\ items[i].is_dict /\ items[i].has_method /\ items[i].has_path
        /\ ~items[i].method_is_str

\* the endpoint regex_extract_endpoints appends for one match
fallback_endpoint(text, m, repo_name, file_path) ==
    LET method == Slice(text, m.caps[1][1], m.caps[1][2])
        path == Slice(text, m.caps[2][1], m.caps[2][2])
    IN  [method |-> method,
         path |-> IF path # <<>> THEN ensure_leading_slash(sub_slashes(path)) ELSE path,
         repo_name |-> repo_name,
         file_path |-> file_path]

\* for pattern in patterns: for match in re.findall(pattern, text)
RECURSIVE regex_extract_loop(_, _, _, _)
regex_extract_loop(text, k, repo_name, file_path) ==
    IF k > Len(FALLBACK_PATTERNS) THEN <<>>
    ELSE LET ms == re_finditer(FALLBACK_PATTERNS[k], text, 0)
         IN  [j \in DOMAIN ms |-> fallback_endpoint(text, ms[j], repo_name, file_path)]
               \o regex_extract_loop(text, k + 1, repo_name, file_path)

regex_extract_endpoints(text, repo_name, file_path) ==
    regex_extract_loop(text, 1, repo_name, file_path)

\* bug variant: without the except clause a failed decode ends the call
parse_response_text_nocatch(text, repo_name, file_path) ==
    LET json_match == regex_search(JSON_ARRAY_RE, text, 0)
        decoded == json_loads(Slice(text, json_match.start, json_match.end))
        items == [i \in DOMAIN decoded.val.items |-> decoded_item(decoded.val.items[i])]
    IN  IF json_match.found
        THEN IF ~decoded.ok \/ loop_raises(items)
             THEN [raised |-> TRUE, endpoints |-> <<>>]
             ELSE [raised |-> FALSE,
                   endpoints |-> parse_endpoints_from_response(items, repo_name, file_path)]
        ELSE [raised |-> FALSE,
              endpoints |-> regex_extract_endpoints(text, repo_name, file_path)]

\* parse_endpoints_from_response(response_text, repo_name, file_path) from
\* the response text: raised tells whether the call ends in an exception
parse_response_text(text, repo_name, file_path) ==
    LET json_match == regex_search(JSON_ARRAY_RE, text, 0)
        decoded == json_loads(Slice(text, json_match.start, json_match.end))
        items == [i \in DOMAIN decoded.val.items |-> decoded_item(decoded.val.items[i])]
    IN  IF json_match.found
        THEN IF ~decoded.ok \/ loop_raises(items)
             THEN [raised |-> FALSE,
                   endpoints |-> regex_extract_endpoints(text, repo_name, file_path)]
             ELSE [raised |-> FALSE,
                   endpoints |-> parse_endpoints_from_response(items, repo_name, file_path)]
        ELSE [raised |-> FALSE,
              endpoints |-> regex_extract_endpoints(text, repo_name, file_path)]

(***************************************************************************)
(* aggregate: deduplicate_endpoints.                                       *)
(* unique_endpoints is a sequence of entries in insertion order; an entry  *)
(* is the stored endpoint together with its dict key.  An endpoint without *)
(* the key 'alternative_sources' has alternative_sources = <<>>.           *)
(***************************************************************************)
endpoint_key(method, path) == method \o <<":">> \o path

HasKey(map, key) == \E i \in DOMAIN map : map[i].key = key

KeyIndex(map, key) == CHOOSE i \in DOMAIN map : map[i].key = key

Contains(seq, x) == \E i \in DOMAIN seq : seq[i] = x

NewEntry(key, endpoint) ==
    [key |-> key, method |-> endpoint.method, path |-> endpoint.path,
     repo_name |-> endpoint.repo_name, file_path |-> endpoint.file_path,
     alternative_sources |-> <<>>]

\* bug variant: a duplicate key replaces the stored endpoint
dedup_body_replace(map, endpoint) ==
    LET method == endpoint.method
        path == endpoint.path
        key == endpoint_key(method, path)
    IN  IF method # <<>> /\ path # <<>>
        THEN IF ~HasKey(map, key)
             THEN Append(map, NewEntry(key, endpoint))
             ELSE [map EXCEPT ![KeyIndex(map, key)] = NewEntry(key, endpoint)]
        ELSE map

\* bug variant: the alternative source is appended without the membership test
dedup_body_nocheck(map, endpoint) ==
    LET method == endpoint.method
        path == endpoint.path
        key == endpoint_key(method, path)
    IN  IF method # <<>> /\ path # <<>>
        THEN IF ~HasKey(map, key)
             THEN Append(map, NewEntry(key, endpoint))
             ELSE LET k == KeyIndex(map, key)
                      alternative == [repo_name |-> endpoint.repo_name,
                                      file_path |-> endpoint.file_path]
                  IN  IF endpoint.repo_name # map[k].repo_name
                         \/ endpoint.file_path # map[k].file_path
                      THEN [map EXCEPT ![k].alternative_sources = Append(@, alternative)]
                      ELSE map
        ELSE map

\* bug variant: the test "if method and path" is missing
dedup_body_noguard(map, endpoint) ==
    LET key == endpoint_key(endpoint.method, endpoint.path)
    IN  IF ~HasKey(map, key)
        THEN Append(map, NewEntry(key, endpoint))
        ELSE LET k == KeyIndex(map, key)
                 alternative == [repo_name |-> endpoint.repo_name,
                                 file_path |-> endpoint.file_path]
             IN  IF (endpoint.repo_name # map[k].repo_name
                     \/ endpoint.file_path # map[k].file_path)
                    /\ ~Contains(map[k].alternative_sources, alternative)
                 THEN [map EXCEPT ![k].alternative_sources = Append(@, alternative)]
                 ELSE map

\* bug variant: a source is an alternative only when both its repository
\* and its file differ from the primary's
dedup_body_bothdiffer(map, endpoint) ==
    LET method == endpoint.method
        path == endpoint.path
        key == endpoint_key(method, path)
    IN  IF method # <<>> /\ path # <<>>
        THEN IF ~HasKey(map, key)
             THEN Append(map, NewEntry(key, endpoint))
             ELSE LET k == KeyIndex(map, key)
                      alternative == [repo_name |-> endpoint.repo_name,
                                      file_path |-> endpoint.file_path]
                  IN  IF (endpoint.repo_name # map[k].repo_name
                          /\ endpoint.file_path # map[k].file_path)
                         /\ ~Contains(map[k].alternative_sources, alternative)
                      THEN [map EXCEPT ![k].alternative_sources = Append(@, alternative)]
                      ELSE map
        ELSE map

\* one iteration of "for endpoint in endpoints"
dedup_body(map, endpoint) ==
    LET method == endpoint.method
        path == endpoint.path
        key == endpoint_key(method, path)
    IN  IF method # <<>> /\ path # <<>>
        THEN IF ~HasKey(map, key)
             THEN Append(map, NewEntry(key, endpoint))
             ELSE LET k == KeyIndex(map, key)
                      alternative == [repo_name |-> endpoint.repo_name,
                                      file_path |-> endpoint.file_path]
                  IN  IF (endpoint.repo_name # map[k].repo_name
                          \/ endpoint.file_path # map[k].file_path)
                         /\ ~Contains(map[k].alternative_sources, alternative)
                      THEN [map EXCEPT ![k].alternative_sources = Append(@, alternative)]
                      ELSE map
        ELSE map

\* for endpoint in endpoints
RECURSIVE dedup_loop(_, _)
dedup_loop(map, endpoints) ==
    IF endpoints = <<>> THEN map
    ELSE dedup_loop(dedup_body(map, Head(endpoints)), Tail(endpoints))

\* deduplicate_endpoints(endpoints)
deduplicate_endpoints(endpoints) == dedup_loop(<<>>, endpoints)

RECURSIVE Flatten(_)
Flatten(lists) ==
    IF lists = <<>> THEN <<>> ELSE Head(lists) \o Flatten(Tail(lists))

(***************************************************************************)
(* discover_and_chunk: chunk_by_size and the chunking loop of process_file.*)
(***************************************************************************)
\* bug variant: ''.join instead of '\n'.join
str_join_nosep(lines) ==
    LET RECURSIVE cat(_)
        cat(ls) == IF ls = <<>> THEN <<>> ELSE Head(ls) \o cat(Tail(ls))
    IN  cat(lines)

\* '\n'.join(lines)
str_join(lines) ==
    LET RECURSIVE join(_)
        join(ls) ==
            IF ls = <<>> THEN <<>>
            ELSE IF Len(ls) = 1 THEN ls[1]
            ELSE ls[1] \o <<"\n">> \o join(Tail(ls))
    IN  join(lines)

\* text.split('\n')
RECURSIVE str_split(_)
str_split(text) ==
    IF \A i \in DOMAIN text : text[i] # "\n" THEN <<text>>
    ELSE LET i == CHOOSE k \in DOMAIN text :
                      text[k] = "\n" /\ \A j \in 1..(k - 1) : text[j] # "\n"
         IN  <<SubSeq(text, 1, i - 1)>> \o str_split(SubSeq(text, i + 1, Len(text)))

\* bug variant: the newline is not counted
line_size_nonewline(line) == Len(line)

\* line_size = len(line) + 1
line_size(line) == Len(line) + 1

\* bug variant: the chunk is completed as soon as the budget is reached
flush_needed_early(current_size, size, current_chunk, budget) ==
    current_size + size >= budget /\ current_chunk # <<>>

\* if current_size + line_size > max_size and current_chunk
flush_needed(current_size, size, current_chunk, budget) ==
    current_size + size > budget /\ current_chunk # <<>>

\* the loop "for line in lines" over the state (chunks, current_chunk, current_size)
RECURSIVE chunk_loop(_, _, _)
chunk_loop(lines, budget, st) ==
    IF lines = <<>> THEN st
    ELSE LET line == Head(lines)
             size == line_size(line)
             fl == IF flush_needed(st.current_size, size, st.current_chunk, budget)
                   THEN [chunks |-> Append(st.chunks, str_join(st.current_chunk)),
                         current_chunk |-> <<>>, current_size |-> 0]
                   ELSE st
         IN  chunk_loop(Tail(lines), budget,
                        [chunks |-> fl.chunks,
                         current_chunk |-> Append(fl.current_chunk, line),
                         current_size |-> fl.current_size + size])

chunk_by_size(text, budget) ==
    IF Len(text) <= budget THEN <<text>>
    ELSE LET st == chunk_loop(str_split(text), budget,
                              [chunks |-> <<>>, current_chunk |-> <<>>,
                               current_size |-> 0])
         IN  IF st.current_chunk # <<>>
             THEN Append(st.chunks, str_join(st.current_chunk))
             ELSE st.chunks

\* bug variant: a section exactly at the budget is sent to chunk_by_size
too_large_at_limit(section, budget) == Len(section) >= budget

\* if len(section) > MAX_CHUNK_SIZE
too_large(section, budget) == Len(section) > budget

\* the chunks process_file appends for section i (0-based); chunk_id "i_j"
\* is <<i, j>> and chunk_id "i" is <<i>>
section_chunks(i, section, budget) ==
    IF too_large(section, budget)
    THEN LET subs == chunk_by_size(section, budget)
         IN  [j \in DOMAIN subs |->
                 [chunk_id |-> <<i, j - 1>>, content |-> subs[j],
                  is_partial |-> TRUE, total_chunks |-> Len(subs)]]
    ELSE <<[chunk_id |-> <<i>>, content |-> section,
            is_partial |-> FALSE, total_chunks |-> 1]>>

\* for i, section in enumerate(sections)
RECURSIVE process_sections(_, _, _)
process_sections(secs, i, budget) ==
    IF secs = <<>> THEN <<>>
    ELSE section_chunks(i, Head(secs), budget)
         \o process_sections(Tail(secs), i + 1, budget)

(***************************************************************************)
(* Inputs of the chunking run.                                             *)
(***************************************************************************)
Chars == {"a", "\n"}

Texts == UNION {[1..n -> Chars] : n \in 0..MaxTextLen}

SectionLists == UNION {[1..n -> Texts] : n \in 1..MaxSections}

Budgets == 1..MaxBudget

InitChunk ==
    /\ sections \in SectionLists
    /\ max_size \in Budgets
    /\ sub_chunks = <<>>
    /\ chunks = <<>>
    /\ cpc = "input"
    /\ ReconcileIdle
    /\ DiscoverIdle
    /\ ExtractIdle
    /\ ParseIdle
    /\ ShuffleIdle

\* a call chunk_by_size(text, max_size) on the first section
ChunkBySize ==
    /\ cpc = "input"
    /\ sub_chunks' = chunk_by_size(sections[1], max_size)
    /\ cpc' = "chunked"
    /\ UNCHANGED <<sections, max_size, chunks, rvars, dvars, evars, pvars, svars>>

\* process_file from "for i, section in enumerate(sections)" to its return
ProcessFile ==
    /\ cpc = "input"
    /\ chunks' = process_sections(sections, 0, max_size)
    /\ cpc' = "processed"
    /\ UNCHANGED <<sections, max_size, sub_chunks, rvars, dvars, evars, pvars, svars>>

NextChunk == ChunkBySize \/ ProcessFile

SpecChunk == InitChunk /\ [][NextChunk]_vars

(***************************************************************************)
(* discover_and_chunk: extract_api_sections and process_file.              *)
(***************************************************************************)
\* FUNCTION_SIGNATURES: per language, the parsed signature patterns in the
\* order of the source list
FUNCTION_SIGNATURES ==
    [js |-> <<
        [t |-> "seq", xs |-> <<[t |-> "grp", n |-> 1, x |-> [t |-> "alt",
          xs |-> <<[t |-> "str", s |-> <<"r", "o", "u", "t", "e", "r">>],
          [t |-> "str", s |-> <<"a", "p", "p">>]>>]], [t |-> "str",
          s |-> <<".">>], [t |-> "grp", n |-> 2, x |-> [t |-> "alt",
          xs |-> <<[t |-> "str", s |-> <<"g", "e", "t">>], [t |-> "str",
          s |-> <<"p", "o", "s", "t">>], [t |-> "str", s |-> <<"p", "u",
          "t">>], [t |-> "str", s |-> <<"d", "e", "l", "e", "t", "e">>],
          [t |-> "str", s |-> <<"p", "a", "t", "c", "h">>], [t |-> "str",
          s |-> <<"h", "e", "a", "d">>], [t |-> "str", s |-> <<"o", "p", "t",
          "i", "o", "n", "s">>]>>]], [t |-> "str", s |-> <<"(">>],
          [t |-> "rep", min |-> 0, max |-> -1, greedy |-> TRUE,
          x |-> [t |-> "set", neg |-> TRUE, chars |-> {")"}]], [t |-> "str",
          s |-> <<")">>]>>],
        [t |-> "seq", xs |-> <<[t |-> "grp", n |-> 1, x |-> [t |-> "alt",
          xs |-> <<[t |-> "str", s |-> <<"r", "o", "u", "t", "e", "r">>],
          [t |-> "str", s |-> <<"a", "p", "p">>]>>]], [t |-> "str",
          s |-> <<".", "r", "o", "u", "t", "e", "(">>], [t |-> "rep",
          min |-> 0, max |-> -1, greedy |-> TRUE, x |-> [t |-> "set",
          neg |-> TRUE, chars |-> {")"}]], [t |-> "str", s |-> <<")", ".">>],
          [t |-> "grp", n |-> 2, x |-> [t |-> "alt", xs |-> <<[t |-> "str",
          s |-> <<"g", "e", "t">>], [t |-> "str", s |-> <<"p", "o", "s",
          "t">>], [t |-> "str", s |-> <<"p", "u", "t">>], [t |-> "str",
          s |-> <<"d", "e", "l", "e", "t", "e">>], [t |-> "str", s |-> <<"p",
          "a", "t", "c", "h">>], [t |-> "str", s |-> <<"h", "e", "a", "d">>],
          [t |-> "str", s |-> <<"o", "p", "t", "i", "o", "n", "s">>]>>]]>>],
        [t |-> "str", s |-> <<"e", "x", "p", "r", "e", "s", "s", ".", "R",
          "o", "u", "t", "e", "r", "(", ")">>]>>,
    py |-> <<
        [t |-> "seq", xs |-> <<[t |-> "str", s |-> <<"@">>], [t |-> "grp",
          n |-> 1, x |-> [t |-> "alt", xs |-> <<[t |-> "str", s |-> <<"a",
          "p", "p">>], [t |-> "str", s |-> <<"r", "o", "u", "t", "e", "r">>],
          [t |-> "str", s |-> <<"b", "l", "u", "e", "p", "r", "i", "n",
          "t">>]>>]], [t |-> "str", s |-> <<".">>], [t |-> "grp", n |-> 2,
          x |-> [t |-> "alt", xs |-> <<[t |-> "str", s |-> <<"r", "o", "u",
          "t", "e">>], [t |-> "str", s |-> <<"g", "e", "t">>], [t |-> "str",
          s |-> <<"p", "o", "s", "t">>], [t |-> "str", s |-> <<"p", "u",
          "t">>], [t |-> "str", s |-> <<"d", "e", "l", "e", "t", "e">>],
          [t |-> "str", s |-> <<"p", "a", "t", "c", "h">>], [t |-> "str",
          s |-> <<"h", "e", "a", "d">>], [t |-> "str", s |-> <<"o", "p", "t",
          "i", "o", "n", "s">>]>>]]>>],
        [t |-> "seq", xs |-> <<[t |-> "str", s |-> <<"@", "a", "p", "i", "_",
          "v", "i", "e", "w", "(", "[">>], [t |-> "rep", min |-> 0,
          max |-> -1, greedy |-> TRUE, x |-> [t |-> "set", neg |-> TRUE,
          chars |-> {"\n"}]], [t |-> "str", s |-> <<"]", ")">>]>>],
        [t |-> "seq", xs |-> <<[t |-> "str", s |-> <<"c", "l", "a", "s",
          "s">>], [t |-> "rep", min |-> 1, max |-> -1, greedy |-> TRUE,
          x |-> [t |-> "set", neg |-> FALSE, chars |-> SpaceChars]],
          [t |-> "rep", min |-> 1, max |-> -1, greedy |-> TRUE,
          x |-> [t |-> "set", neg |-> FALSE, chars |-> WordChars]],
          [t |-> "str", s |-> <<"(">>], [t |-> "rep", min |-> 0, max |-> -1,
          greedy |-> TRUE, x |-> [t |-> "set", neg |-> TRUE,
          chars |-> {"\n"}]], [t |-> "str", s |-> <<"V", "i", "e", "w", ")",
          ":">>]>>],
        [t |-> "seq", xs |-> <<[t |-> "str", s |-> <<"d", "e", "f">>],
          [t |-> "rep", min |-> 1, max |-> -1, greedy |-> TRUE,
          x |-> [t |-> "set", neg |-> FALSE, chars |-> SpaceChars]],
          [t |-> "rep", min |-> 1, max |-> -1, greedy |-> TRUE,
          x |-> [t |-> "set", neg |-> FALSE, chars |-> WordChars]],
          [t |-> "str", s |-> <<"(">>], [t |-> "rep", min |-> 0, max |-> -1,
          greedy |-> TRUE, x |-> [t |-> "set", neg |-> TRUE,
          chars |-> {"\n"}]], [t |-> "str", s |-> <<"r", "e", "q", "u", "e",
          "s", "t">>]>>]>>,
    java |-> <<
        [t |-> "seq", xs |-> <<[t |-> "str", s |-> <<"@">>], [t |-> "grp",
          n |-> 1, x |-> [t |-> "alt", xs |-> <<[t |-> "str", s |-> <<"G",
          "e", "t", "M", "a", "p", "p", "i", "n", "g">>], [t |-> "str",
          s |-> <<"P", "o", "s", "t", "M", "a", "p", "p", "i", "n", "g">>],
          [t |-> "str", s |-> <<"P", "u", "t", "M", "a", "p", "p", "i", "n",
          "g">>], [t |-> "str", s |-> <<"D", "e", "l", "e", "t", "e", "M",
          "a", "p", "p", "i", "n", "g">>], [t |-> "str", s |-> <<"P", "a",
          "t", "c", "h", "M", "a", "p", "p", "i", "n", "g">>], [t |-> "str",
          s |-> <<"R", "e", "q", "u", "e", "s", "t", "M", "a", "p", "p", "i",
          "n", "g">>]>>]]>>],
        [t |-> "seq", xs |-> <<[t |-> "str", s |-> <<"@", "P", "a", "t", "h",
          "(">>], [t |-> "rep", min |-> 0, max |-> -1, greedy |-> TRUE,
          x |-> [t |-> "set", neg |-> TRUE, chars |-> {")"}]], [t |-> "str",
          s |-> <<")">>]>>]>>,
    go |-> <<
        [t |-> "seq", xs |-> <<[t |-> "str", s |-> <<"f", "u", "n", "c">>],
          [t |-> "rep", min |-> 1, max |-> -1, greedy |-> TRUE,
          x |-> [t |-> "set", neg |-> FALSE, chars |-> SpaceChars]],
          [t |-> "rep", min |-> 1, max |-> -1, greedy |-> TRUE,
          x |-> [t |-> "set", neg |-> FALSE, chars |-> WordChars]],
          [t |-> "str", s |-> <<"(">>], [t |-> "grp", n |-> 1,
          x |-> [t |-> "alt", xs |-> <<[t |-> "seq", xs |-> <<[t |-> "rep",
          min |-> 0, max |-> -1, greedy |-> TRUE, x |-> [t |-> "set",
          neg |-> FALSE, chars |-> SpaceChars]], [t |-> "rep", min |-> 1,
          max |-> -1, greedy |-> TRUE, x |-> [t |-> "set", neg |-> FALSE,
          chars |-> WordChars]], [t |-> "rep", min |-> 1, max |-> -1,
          greedy |-> TRUE, x |-> [t |-> "set", neg |-> FALSE,
          chars |-> SpaceChars]], [t |-> "rep", min |-> 0, max |-> 1,
          greedy |-> TRUE, x |-> [t |-> "str", s |-> <<"*">>]], [t |-> "str",
          s |-> <<"g", "i", "n", ".", "C", "o", "n", "t", "e", "x",
          "t">>]>>], [t |-> "seq", xs |-> <<[t |-> "rep", min |-> 0,
          max |-> -1, greedy |-> TRUE, x |-> [t |-> "set", neg |-> FALSE,
          chars |-> SpaceChars]], [t |-> "rep", min |-> 1, max |-> -1,
          greedy |-> TRUE, x |-> [t |-> "set", neg |-> FALSE,
          chars |-> WordChars]], [t |-> "rep", min |-> 1, max |-> -1,
          greedy |-> TRUE, x |-> [t |-> "set", neg |-> FALSE,
          chars |-> SpaceChars]], [t |-> "rep", min |-> 0, max |-> 1,
          greedy |-> TRUE, x |-> [t |-> "str", s |-> <<"*">>]], [t |-> "str",
          s |-> <<"h", "t", "t", "p", ".", "R", "e", "s", "p", "o", "n", "s",
          "e", "W", "r", "i", "t", "e", "r", ",">>], [t |-> "rep", min |-> 0,
          max |-> -1, greedy |-> TRUE, x |-> [t |-> "set", neg |-> FALSE,
          chars |-> SpaceChars]], [t |-> "rep", min |-> 1, max |-> -1,
          greedy |-> TRUE, x |-> [t |-> "set", neg |-> FALSE,
          chars |-> WordChars]], [t |-> "rep", min |-> 1, max |-> -1,
          greedy |-> TRUE, x |-> [t |-> "set", neg |-> FALSE,
          chars |-> SpaceChars]], [t |-> "rep", min |-> 0, max |-> 1,
          greedy |-> TRUE, x |-> [t |-> "str", s |-> <<"*">>]], [t |-> "str",
          s |-> <<"h", "t", "t", "p", ".", "R", "e", "q", "u", "e", "s",
          "t">>]>>], [t |-> "seq", xs |-> <<[t |-> "rep", min |-> 0,
          max |-> -1, greedy |-> TRUE, x |-> [t |-> "set", neg |-> FALSE,
          chars |-> SpaceChars]], [t |-> "rep", min |-> 1, max |-> -1,
          greedy |-> TRUE, x |-> [t |-> "set", neg |-> FALSE,
          chars |-> WordChars]], [t |-> "rep", min |-> 1, max |-> -1,
          greedy |-> TRUE, x |-> [t |-> "set", neg |-> FALSE,
          chars |-> SpaceChars]], [t |-> "rep", min |-> 0, max |-> 1,
          greedy |-> TRUE, x |-> [t |-> "str", s |-> <<"*">>]], [t |-> "str",
          s |-> <<"e", "c", "h", "o", ".", "C", "o", "n", "t", "e", "x",
          "t">>]>>]>>]]>>],
        [t |-> "seq", xs |-> <<[t |-> "str", s |-> <<".">>], [t |-> "grp",
          n |-> 1, x |-> [t |-> "alt", xs |-> <<[t |-> "str", s |-> <<"G",
          "E", "T">>], [t |-> "str", s |-> <<"P", "O", "S", "T">>],
          [t |-> "str", s |-> <<"P", "U", "T">>], [t |-> "str", s |-> <<"D",
          "E", "L", "E", "T", "E">>], [t |-> "str", s |-> <<"P", "A", "T",
          "C", "H">>], [t |-> "str", s |-> <<"H", "E", "A", "D">>],
          [t |-> "str", s |-> <<"O", "P", "T", "I", "O", "N", "S">>]>>]],
          [t |-> "str", s |-> <<"(">>]>>]>>,
    ts |-> <<
        [t |-> "seq", xs |-> <<[t |-> "grp", n |-> 1, x |-> [t |-> "alt",
          xs |-> <<[t |-> "str", s |-> <<"r", "o", "u", "t", "e", "r">>],
          [t |-> "str", s |-> <<"a", "p", "p">>]>>]], [t |-> "str",
          s |-> <<".">>], [t |-> "grp", n |-> 2, x |-> [t |-> "alt",
          xs |-> <<[t |-> "str", s |-> <<"g", "e", "t">>], [t |-> "str",
          s |-> <<"p", "o", "s", "t">>], [t |-> "str", s |-> <<"p", "u",
          "t">>], [t |-> "str", s |-> <<"d", "e", "l", "e", "t", "e">>],
          [t |-> "str", s |-> <<"p", "a", "t", "c", "h">>], [t |-> "str",
          s |-> <<"h", "e", "a", "d">>], [t |-> "str", s |-> <<"o", "p", "t",
          "i", "o", "n", "s">>]>>]], [t |-> "str", s |-> <<"(">>],
          [t |-> "rep", min |-> 0, max |-> -1, greedy |-> TRUE,
          x |-> [t |-> "set", neg |-> TRUE, chars |-> {")"}]], [t |-> "str",
          s |-> <<")">>]>>],
        [t |-> "seq", xs |-> <<[t |-> "str", s |-> <<"@">>], [t |-> "grp",
          n |-> 1, x |-> [t |-> "alt", xs |-> <<[t |-> "str", s |-> <<"G",
          "e", "t">>], [t |-> "str", s |-> <<"P", "o", "s", "t">>],
          [t |-> "str", s |-> <<"P", "u", "t">>], [t |-> "str", s |-> <<"D",
          "e", "l", "e", "t", "e">>], [t |-> "str", s |-> <<"P", "a", "t",
          "c", "h">>], [t |-> "str", s |-> <<"H", "e", "a", "d">>],
          [t |-> "str", s |-> <<"O", "p", "t", "i", "o", "n", "s">>]>>]],
          [t |-> "str", s |-> <<"(">>], [t |-> "rep", min |-> 0, max |-> -1,
          greedy |-> TRUE, x |-> [t |-> "set", neg |-> TRUE,
          chars |-> {")"}]], [t |-> "str", s |-> <<")">>]>>],
        [t |-> "seq", xs |-> <<[t |-> "str", s |-> <<"@", "A", "p", "i", "O",
          "p", "e", "r", "a", "t", "i", "o", "n", "(">>], [t |-> "rep",
          min |-> 0, max |-> -1, greedy |-> TRUE, x |-> [t |-> "set",
          neg |-> TRUE, chars |-> {")"}]], [t |-> "str", s |-> <<")">>]>>]>>]

\* r'(function|class|def|func)\s+\w+'
DECLARATION_RE ==
    [t |-> "seq", xs |-> <<[t |-> "grp", n |-> 1, x |-> [t |-> "alt",
      xs |-> <<[t |-> "str", s |-> <<"f", "u", "n", "c", "t", "i", "o",
      "n">>], [t |-> "str", s |-> <<"c", "l", "a", "s", "s">>], [t |-> "str",
      s |-> <<"d", "e", "f">>], [t |-> "str", s |-> <<"f", "u", "n",
      "c">>]>>]], [t |-> "rep", min |-> 1, max |-> -1, greedy |-> TRUE,
      x |-> [t |-> "set", neg |-> FALSE, chars |-> SpaceChars]],
      [t |-> "rep", min |-> 1, max |-> -1, greedy |-> TRUE,
      x |-> [t |-> "set", neg |-> FALSE, chars |-> WordChars]]>>]

\* the 500 of max(0, start - 500)
CONTEXT_CHARS == 500

\* the 2000 of min(len(content), end + 2000)
BLOCK_CHARS == 2000

\* len(line) - len(line.lstrip())
indent_of(line) == Len(line) - Len(str_lstrip(line))

\* the backward search for a declaration line in content[window_start:start]:
\* the offset the section starts at
context_start_of(text, start) ==
    LET window_start == Max(0, start - CONTEXT_CHARS)
        context_section == Slice(text, window_start, start)
        lines == str_split(context_section)
        decls == {i \in DOMAIN lines : regex_search(DECLARATION_RE, lines[i], 0).found}
    IN  IF decls = {} THEN window_start
        ELSE LET i == CHOOSE k \in decls : \A j \in decls : j <= k
             IN  window_start + str_find(context_section, lines[i], 0)

\* end = content.find('\n', match.end()), or len(content)
line_end_of(text, match_end) ==
    LET f == str_find(text, <<"\n">>, match_end)
    IN  IF f = -1 THEN Len(text) ELSE f

\* the loop over content[match.start():block_end]: the offset i at which it
\* breaks, or -1 when it runs to the end of the window
RECURSIVE brace_scan(_, _, _, _, _, _)
brace_scan(window, i, brace_stack, in_string, string_char, match_len) ==
    IF i >= Len(window) THEN -1
    ELSE LET char == window[i + 1]
             quote == char \in {"\"", "'"}
             in_string1 == IF quote /\ ~in_string THEN TRUE
                           ELSE IF quote /\ char = string_char THEN FALSE
                           ELSE in_string
             string_char1 == IF quote /\ ~in_string THEN char ELSE string_char
             brace_stack1 ==
                 IF in_string1 THEN brace_stack
                 ELSE IF char = "{" THEN Append(brace_stack, "{")
                 ELSE IF char = "}" /\ brace_stack # <<>>
                      THEN SubSeq(brace_stack, 1, Len(brace_stack) - 1)
                 ELSE brace_stack
         IN  IF ~in_string1 /\ char = "}" /\ brace_stack1 = <<>> /\ i > match_len
             THEN i
             ELSE brace_scan(window, i + 1, brace_stack1, in_string1,
                             string_char1, match_len)

\* the offset in content[match.start():block_end] of the '}' the brace loop
\* breaks at, or -1
brace_break(text, m, block_end) ==
    brace_scan(Slice(text, m.start, block_end), 0, <<>>, FALSE, "", m.end - m.start)

\* the end of the section for js, ts, java and go
brace_end(text, m, line_end, block_end) ==
    LET i == brace_break(text, m, block_end)
    IN  IF i = -1 THEN line_end ELSE m.start + i + 1

\* the end of the section for py
indent_end(text, line_end, block_end) ==
    LET block == Slice(text, line_end, block_end)
        lines == str_split(block)
        filled == {i \in DOMAIN lines : str_strip(lines[i]) # <<>>}
        first_line_indent ==
            IF filled = {} THEN -1
            ELSE indent_of(lines[CHOOSE i \in filled : \A j \in filled : i <= j])
        back == \E i \in 2..Len(lines) :
                   str_strip(lines[i]) # <<>> /\ indent_of(lines[i]) <= first_line_indent
    IN  IF Len(lines) > 1 /\ back
        THEN line_end
               + str_find(SliceTo(block,
                                  str_find(block, <<"\n">>,
                                           str_find(block, <<"\n">>, 0) + 1)),
                          <<"\n">>, 0)
        ELSE line_end

\* the body of "for match in re.finditer(pattern, content)" for one match of
\* the k-th pattern; beside the section text the record keeps the offsets
\* the body computed and whether the brace loop ended in its break
section_of(text, language, k, m) ==
    LET context_start == context_start_of(text, m.start)
        line_end == line_end_of(text, m.end)
        block_end == Min(Len(text), line_end + BLOCK_CHARS)
        end == IF language \in {"js", "ts", "java", "go"}
               THEN brace_end(text, m, line_end, block_end)
               ELSE IF language = "py" THEN indent_end(text, line_end, block_end)
               ELSE line_end
    IN  [section |-> str_strip(Slice(text, context_start, end)),
         pattern |-> k, start |-> m.start, match_end |-> m.end,
         context_start |-> context_start, line_end |-> line_end,
         block_end |-> block_end, end |-> end,
         broke |-> /\ language \in {"js", "ts", "java", "go"}
                   /\ brace_break(text, m, block_end) # -1]

\* bug variant: the matches of one pattern are taken from right to left
pattern_sections_reversed(text, language, patterns, k) ==
    LET ms == re_finditer(patterns[k], text, 0)
        secs == [j \in DOMAIN ms |->
                    section_of(text, language, k, ms[Len(ms) + 1 - j])]
    IN  SelectSeq(secs, LAMBDA r : r.section # <<>>)

\* the matches of one pattern, left to right, with empty sections skipped
pattern_sections(text, language, patterns, k) ==
    LET ms == re_finditer(patterns[k], text, 0)
        secs == [j \in DOMAIN ms |-> section_of(text, language, k, ms[j])]
    IN  SelectSeq(secs, LAMBDA r : r.section # <<>>)

\* for pattern in patterns
RECURSIVE extract_loop(_, _, _, _)
extract_loop(text, language, patterns, k) ==
    IF k > Len(patterns) THEN <<>>
    ELSE pattern_sections(text, language, patterns, k)
           \o extract_loop(text, language, patterns, k + 1)

\* FUNCTION_SIGNATURES.get(lang, [])
patterns_of(language) ==
    IF language \in DOMAIN FUNCTION_SIGNATURES THEN FUNCTION_SIGNATURES[language]
    ELSE <<>>

\* extract_api_sections, one record per section
extract_records(text, language) == extract_loop(text, language, patterns_of(language), 1)

\* the list extract_api_sections returns: the section texts
section_texts(recs) == [i \in DOMAIN recs |-> recs[i].section]

\* extract_api_sections(content, lang)
extract_api_sections(text, language) == section_texts(extract_records(text, language))

\* bug variant: a file without matches yields no section
file_sections_nofallback(text, language, extracted) ==
    IF language \in DOMAIN FUNCTION_SIGNATURES THEN extracted ELSE <<text>>

\* process_file: the sections that are chunked, extracted being the result
\* of extract_api_sections(content, lang)
file_sections(text, language, extracted) ==
    IF language \in DOMAIN FUNCTION_SIGNATURES
    THEN IF extracted = <<>> THEN <<text>> ELSE extracted
    ELSE <<text>>

\* MAX_CHUNK_SIZE
MAX_CHUNK_SIZE == 4000

(***************************************************************************)
(* Inputs of process_file: a file is a concatenation of at most MaxTokens  *)
(* tokens of its language.                                                 *)
(***************************************************************************)
JavaTokens == {
    <<"@", "G", "e", "t", "M", "a", "p", "p", "i", "n", "g">>,
    <<"@", "P", "a", "t", "h", "(", "x", ")">>,
    <<"{">>, <<"}">>, <<"\n">>, <<" ", "x">>, <<"\"">>}

PyTokens == {
    <<"@", "a", "p", "p", ".", "g", "e", "t">>,
    <<"d", "e", "f", " ", "f", "\n">>,
    <<"\n", " ", " ", "x">>, <<"\n", "x">>, <<"\n">>}

RECURSIVE Concat(_)
Concat(ts) == IF ts = <<>> THEN <<>> ELSE Head(ts) \o Concat(Tail(ts))

ContentsOf(tokens) ==
    {Concat(ts) : ts \in UNION {[1..n -> tokens] : n \in 0..MaxTokens}}

Files ==
    ({"java"} \X ContentsOf(JavaTokens))
        \cup ({"py", "unknown"} \X ContentsOf(PyTokens))

\* the budget of the source, and a small one under which files are chunked
FileBudgets == {MaxBudget, MAX_CHUNK_SIZE}

InitExtract ==
    /\ \E f \in Files : lang = f[1] /\ content = f[2]
    /\ found = <<>>
    /\ sections = <<>>
    /\ max_size \in FileBudgets
    /\ sub_chunks = <<>>
    /\ chunks = <<>>
    /\ cpc = "read"
    /\ ReconcileIdle
    /\ DiscoverIdle
    /\ ParseIdle
    /\ ShuffleIdle

\* process_file from "if lang in FUNCTION_SIGNATURES" to its return
ProcessWholeFile ==
    /\ cpc = "read"
    /\ found' = IF lang \in DOMAIN FUNCTION_SIGNATURES
                THEN extract_records(content, lang) ELSE <<>>
    /\ sections' = file_sections(content, lang, section_texts(found'))
    /\ chunks' = process_sections(sections', 0, max_size)
    /\ cpc' = "processed"
    /\ UNCHANGED <<content, lang, max_size, sub_chunks, rvars, dvars, pvars, svars>>

NextExtract == ProcessWholeFile

SpecExtract == InitExtract /\ [][NextExtract]_vars

(***************************************************************************)
(* Inputs of the parsing run: a response text is a concatenation of at     *)
(* most MaxParts of these pieces.                                          *)
(***************************************************************************)
ResponseParts == {
    <<"[">>,
    <<"]">>,
    <<"}", "]">>,
    <<"{", "\"", "m", "e", "t", "h", "o", "d", "\"", ":", "\"", "G", "E", "T", "\"", ",", "\"", "p", "a", "t", "h", "\"", ":", "\"", "a", "/", "/", "b", "\"", "}">>,
    <<"{", "\"", "m", "e", "t", "h", "o", "d", "\"", ":", "n", "u", "l", "l", ",", "\"", "p", "a", "t", "h", "\"", ":", "\"", "/", "a", "\"", "}">>,
    <<"m", "e", "t", "h", "o", "d", ":", " ", "G", "E", "T", " ", "p", "a", "t", "h", ":", " ", "/", "a">>,
    <<"G", "E", "T", " ", "\"", "/", "b", "\"">>}

ResponseTexts ==
    {Concat(ts) : ts \in UNION {[1..n -> ResponseParts] : n \in 0..MaxParts}}

InitParse ==
    /\ response_text \in ResponseTexts
    /\ parsed = <<>>
    /\ ppc = "invoked"
    /\ ReconcileIdle
    /\ ChunkIdle
    /\ DiscoverIdle
    /\ ExtractIdle
    /\ ShuffleIdle

\* invoke_bedrock.lambda_handler: endpoints = parse_endpoints_from_response(..)
ParseResponse ==
    /\ ppc = "invoked"
    /\ parsed' = parse_response_text(response_text, "repoA", "a.js")
    /\ ppc' = "parsed"
    /\ UNCHANGED <<response_text, rvars, cvars, dvars, evars, svars>>

NextParse == ParseResponse

SpecParse == InitParse /\ [][NextParse]_vars

(***************************************************************************)
(* discover_and_chunk: discover_api_files.                                 *)
(* A pattern of FILE_PATTERNS is a literal, any characters, a tail and the *)
(* end of the string; the literal is empty for the patterns that begin     *)
(* with the any-characters part.                                           *)
(***************************************************************************)
FILE_PATTERNS == <<
    [framework |-> "node_express", patterns |-> <<
        [literal |-> <<"r", "o", "u", "t", "e", "s", "/">>,
         tail |-> <<".", "j", "s">>],
        [literal |-> <<"c", "o", "n", "t", "r", "o", "l", "l", "e", "r", "s", "/">>,
         tail |-> <<".", "j", "s">>],
        [literal |-> <<"a", "p", "i", "/">>,
         tail |-> <<".", "j", "s">>],
        [literal |-> <<>>,
         tail |-> <<"r", "o", "u", "t", "e", "r", ".", "j", "s">>],
        [literal |-> <<>>,
         tail |-> <<"r", "o", "u", "t", "e", "s", ".", "j", "s">>],
        [literal |-> <<>>,
         tail |-> <<"c", "o", "n", "t", "r", "o", "l", "l", "e", "r", ".", "j", "s">>]>>],
    [framework |-> "python_web", patterns |-> <<
        [literal |-> <<"r", "o", "u", "t", "e", "s", "/">>,
         tail |-> <<".", "p", "y">>],
        [literal |-> <<"v", "i", "e", "w", "s", "/">>,
         tail |-> <<".", "p", "y">>],
        [literal |-> <<"a", "p", "i", "/">>,
         tail |-> <<".", "p", "y">>],
        [literal |-> <<"c", "o", "n", "t", "r", "o", "l", "l", "e", "r", "s", "/">>,
         tail |-> <<".", "p", "y">>],
        [literal |-> <<>>,
         tail |-> <<"r", "o", "u", "t", "e", "r", ".", "p", "y">>],
        [literal |-> <<>>,
         tail |-> <<"r", "o", "u", "t", "e", "s", ".", "p", "y">>],
        [literal |-> <<>>,
         tail |-> <<"v", "i", "e", "w", "s", ".", "p", "y">>],
        [literal |-> <<>>,
         tail |-> <<"a", "p", "p", ".", "p", "y">>]>>],
    [framework |-> "java_spring", patterns |-> <<
        [literal |-> <<>>,
         tail |-> <<"C", "o", "n", "t", "r", "o", "l", "l", "e", "r", ".", "j", "a", "v", "a">>],
        [literal |-> <<>>,
         tail |-> <<"R", "e", "s", "o", "u", "r", "c", "e", ".", "j", "a", "v", "a">>],
        [literal |-> <<>>,
         tail |-> <<"E", "n", "d", "p", "o", "i", "n", "t", ".", "j", "a", "v", "a">>]>>],
    [framework |-> "golang", patterns |-> <<
        [literal |-> <<"h", "a", "n", "d", "l", "e", "r", "s", "/">>,
         tail |-> <<".", "g", "o">>],
        [literal |-> <<"r", "o", "u", "t", "e", "s", "/">>,
         tail |-> <<".", "g", "o">>],
        [literal |-> <<"a", "p", "i", "/">>,
         tail |-> <<".", "g", "o">>],
        [literal |-> <<>>,
         tail |-> <<"r", "o", "u", "t", "e", "r", ".", "g", "o">>],
        [literal |-> <<>>,
         tail |-> <<"h", "a", "n", "d", "l", "e", "r", ".", "g", "o">>]>>],
    [framework |-> "typescript", patterns |-> <<
        [literal |-> <<"r", "o", "u", "t", "e", "s", "/">>,
         tail |-> <<".", "t", "s">>],
        [literal |-> <<"c", "o", "n", "t", "r", "o", "l", "l", "e", "r", "s", "/">>,
         tail |-> <<".", "t", "s">>],
        [literal |-> <<"a", "p", "i", "/">>,
         tail |-> <<".", "t", "s">>],
        [literal |-> <<>>,
         tail |-> <<"r", "o", "u", "t", "e", "r", ".", "t", "s">>],
        [literal |-> <<>>,
         tail |-> <<"r", "o", "u", "t", "e", "s", ".", "t", "s">>],
        [literal |-> <<>>,
         tail |-> <<"c", "o", "n", "t", "r", "o", "l", "l", "e", "r", ".", "t", "s">>]>>]>>

ExcludedNames == {
    <<"n", "o", "d", "e", "_", "m", "o", "d", "u", "l", "e", "s">>,
    <<"v", "e", "n", "d", "o", "r">>,
    <<"d", "i", "s", "t">>,
    <<"b", "u", "i", "l", "d">>,
    <<"t", "a", "r", "g", "e", "t">>,
    <<"v", "e", "n", "v">>}

LowerChar(c) ==
    IF \E i \in DOMAIN UpperLetters : UpperLetters[i] = c
    THEN LowerLetters[CHOOSE i \in DOMAIN UpperLetters : UpperLetters[i] = c]
    ELSE c

str_lower(t) == [i \in DOMAIN t |-> LowerChar(t[i])]

\* Path(relative_path).parts: the components between the '/' separators
RECURSIVE path_parts(_)
path_parts(path) ==
    IF path = <<>> THEN <<>>
    ELSE IF \A i \in DOMAIN path : path[i] # "/" THEN <<path>>
    ELSE LET i == CHOOSE k \in DOMAIN path :
                      path[k] = "/" /\ \A j \in 1..(k - 1) : path[j] # "/"
             rest == path_parts(SubSeq(path, i + 1, Len(path)))
         IN  IF i = 1 THEN rest ELSE <<SubSeq(path, 1, i - 1)>> \o rest

\* any(part.startswith('.') for part in parts)
has_hidden_part(parts) ==
    \E i \in DOMAIN parts : parts[i] # <<>> /\ parts[i][1] = "."

\* bug variant: only the top-level component is tested
has_excluded_part_top(parts) == parts # <<>> /\ parts[1] \in ExcludedNames

\* any(part in ['node_modules', 'vendor', 'dist', 'build', 'target', 'venv'] for part in parts)
has_excluded_part(parts) == \E i \in DOMAIN parts : parts[i] \in ExcludedNames

\* re.search(pattern, relative_path, re.IGNORECASE)
re_search(pattern, path) ==
    LET t == str_lower(path)
        lit == str_lower(pattern.literal)
        tl == str_lower(pattern.tail)
    IN  /\ Len(t) >= Len(lit) + Len(tl)
        /\ SubSeq(t, Len(t) - Len(tl) + 1, Len(t)) = tl
        /\ \E i \in 0..(Len(t) - Len(tl) - Len(lit)) : SubSeq(t, i + 1, i + Len(lit)) = lit

\* the loop over FILE_PATTERNS.items(): some framework has a matching pattern
matches_file_patterns(path) ==
    \E f \in DOMAIN FILE_PATTERNS :
        \E k \in DOMAIN FILE_PATTERNS[f].patterns :
            re_search(FILE_PATTERNS[f].patterns[k], path)

\* the body of "for file in files": what the file adds to api_files
discover_file(path) ==
    IF has_hidden_part(path_parts(path)) THEN <<>>
    ELSE IF has_excluded_part(path_parts(path)) THEN <<>>
    ELSE IF matches_file_patterns(path) THEN <<path>>
    ELSE <<>>

(***************************************************************************)
(* Inputs of the discovery run: a repository file below up to MaxDirs      *)
(* directories.                                                            *)
(***************************************************************************)
Dirs == {
    <<"r", "o", "u", "t", "e", "s">>,
    <<"l", "i", "b">>,
    <<"e", "x", "p", "r", "e", "s", "s">>,
    <<"n", "o", "d", "e", "_", "m", "o", "d", "u", "l", "e", "s">>,
    <<"v", "e", "n", "d", "o", "r">>,
    <<"d", "i", "s", "t">>,
    <<"b", "u", "i", "l", "d">>,
    <<"t", "a", "r", "g", "e", "t">>,
    <<"v", "e", "n", "v">>,
    <<".", "g", "i", "t">>}

FileNames == {
    <<"u", "s", "e", "r", "s", ".", "j", "s">>,
    <<"r", "o", "u", "t", "e", "r", ".", "j", "s">>,
    <<"v", "i", "e", "w", "s", ".", "p", "y">>,
    <<"R", "E", "A", "D", "M", "E", ".", "m", "d">>}

\* os.path.relpath(os.path.join(root, file), repo_dir)
relpath(dirs, file) ==
    LET RECURSIVE cat(_)
        cat(ds) == IF ds = <<>> THEN file ELSE Head(ds) \o <<"/">> \o cat(Tail(ds))
    IN  cat(dirs)

RelativePaths ==
    {relpath(ds, f) : ds \in UNION {[1..n -> Dirs] : n \in 0..MaxDirs}, f \in FileNames}

InitDiscover ==
    /\ relative_path \in RelativePaths
    /\ api_files = <<>>
    /\ dpc = "walk"
    /\ ReconcileIdle
    /\ ChunkIdle
    /\ ExtractIdle
    /\ ParseIdle
    /\ ShuffleIdle

\* discover_api_files on the repository holding the file relative_path
DiscoverApiFiles ==
    /\ dpc = "walk"
    /\ api_files' = api_files \o discover_file(relative_path)
    /\ dpc' = "done"
    /\ UNCHANGED <<relative_path, rvars, cvars, evars, pvars, svars>>

NextDiscover == DiscoverApiFiles

SpecDiscover == InitDiscover /\ [][NextDiscover]_vars

(***************************************************************************)
(* Inputs: what the inference service may answer for one chunk.            *)
(***************************************************************************)
GET == <<"G", "E", "T">>

get == <<"g", "e", "t">>

ApiUsers == <<"/", "a", "p", "i", "/", "u", "s", "e", "r", "s">>

ApiUsersTrailing == <<"/", "a", "p", "i", "/", "u", "s", "e", "r", "s", "/">>

ApiUsersDouble == <<"/", "a", "p", "i", "/", "/", "u", "s", "e", "r", "s">>

ApiUsersNoLead == <<"a", "p", "i", "/", "u", "s", "e", "r", "s">>

RawMethods == {GET, get}

RawPaths == {ApiUsers, ApiUsersTrailing, ApiUsersDouble, ApiUsersNoLead}

RawItems ==
    {Item(m, p) : m \in RawMethods, p \in RawPaths}
    \cup {Item(<<>>, ApiUsers), Item(GET, <<>>), NoMethodItem(ApiUsers),
          NoPathItem(GET), NotADict}

Responses ==
    {<<>>} \cup {<<i>> : i \in RawItems}
    \cup {<<Item(GET, ApiUsers), Item(get, ApiUsersTrailing)>>}

\* (repo_name, file_path) of the chunk an invocation works on
Sources == {<<"repoA", "a.js">>, <<"repoB", "b.js">>, <<"repoA", "b.js">>}

(***************************************************************************)
(* The aggregation job.                                                    *)
(***************************************************************************)
Init ==
    /\ results = <<>>
    /\ all_endpoints = <<>>
    /\ unique_endpoints = <<>>
    /\ idx = 0
    /\ pc = "invoke"
    /\ ChunkIdle
    /\ DiscoverIdle
    /\ ExtractIdle
    /\ ParseIdle
    /\ ShuffleIdle

\* invoke_bedrock.lambda_handler for one chunk: parse the response, store the result
InvokeBedrock ==
    /\ pc = "invoke"
    /\ Len(results) < MaxResults
    /\ \E response \in Responses, src \in Sources :
          results' = Append(results,
                            parse_endpoints_from_response(response, src[1], src[2]))
    /\ UNCHANGED <<all_endpoints, unique_endpoints, idx, pc, cvars, dvars, evars, pvars, svars>>

\* aggregate.lambda_handler up to the call of deduplicate_endpoints
Aggregate ==
    /\ pc = "invoke"
    /\ all_endpoints' = Flatten(results)
    /\ unique_endpoints' = <<>>
    /\ idx' = 0
    /\ pc' = "dedup"
    /\ UNCHANGED <<results, cvars, dvars, evars, pvars, svars>>

\* deduplicate_endpoints: one iteration of the loop
DedupStep ==
    /\ pc = "dedup"
    /\ idx < Len(all_endpoints)
    /\ unique_endpoints' = dedup_body(unique_endpoints, all_endpoints[idx + 1])
    /\ idx' = idx + 1
    /\ UNCHANGED <<results, all_endpoints, pc, cvars, dvars, evars, pvars, svars>>

\* deduplicate_endpoints: return list(unique_endpoints.values())
DedupReturn ==
    /\ pc = "dedup"
    /\ idx = Len(all_endpoints)
    /\ pc' = "done"
    /\ UNCHANGED <<results, all_endpoints, unique_endpoints, idx, cvars, dvars, evars, pvars, svars>>

Next == InvokeBedrock \/ Aggregate \/ DedupStep \/ DedupReturn

Spec == Init /\ [][Next]_vars

(***************************************************************************)
(* The aggregation job on two arrival orders of the same candidates: the   *)
(* result files of a job are listed in an order that depends on when the   *)
(* chunks were processed, so all_endpoints may arrive as any reordering.   *)
(***************************************************************************)
Candidate(m, p, src) ==
    [method |-> m, path |-> p, repo_name |-> src[1], file_path |-> src[2]]

Candidates ==
    {Candidate(GET, ApiUsers, src) : src \in Sources}
        \cup {Candidate(GET, ApiUsersTrailing, <<"repoA", "a.js">>),
              Candidate(<<>>, ApiUsers, <<"repoB", "b.js">>)}

CandidateStreams == UNION {[1..n -> Candidates] : n \in 0..MaxCandidates}

\* the reorderings of a stream
Reorderings(stream) ==
    {[i \in DOMAIN stream |-> stream[f[i]]] :
        f \in {g \in [DOMAIN stream -> DOMAIN stream] :
                  \A a, b \in DOMAIN stream : g[a] = g[b] => a = b}}

InitShuffle ==
    /\ results = <<>>
    /\ all_endpoints \in CandidateStreams
    /\ shuffled \in Reorderings(all_endpoints)
    /\ unique_endpoints = <<>>
    /\ unique_shuffled = <<>>
    /\ idx = 0
    /\ pc = "dedup"
    /\ ChunkIdle
    /\ DiscoverIdle
    /\ ExtractIdle
    /\ ParseIdle

\* unique_endpoints = deduplicate_endpoints(all_endpoints), for both orders
DeduplicateBoth ==
    /\ pc = "dedup"
    /\ unique_endpoints' = deduplicate_endpoints(all_endpoints)
    /\ unique_shuffled' = deduplicate_endpoints(shuffled)
    /\ idx' = Len(all_endpoints)
    /\ pc' = "done"
    /\ UNCHANGED <<results, all_endpoints, shuffled, cvars, dvars, evars, pvars>>

NextShuffle == DeduplicateBoth

SpecShuffle == InitShuffle /\ [][NextShuffle]_vars

(***************************************************************************)
(* Vocabulary of the claims about reconciliation.                          *)
(***************************************************************************)
\* method normalized to upper case
NormalizedMethod(m) == [i \in DOMAIN m |-> UpperChar(m[i])]

\* a text with every run of '/' reduced to its last '/'
RECURSIVE Collapsed(_)
Collapsed(p) ==
    IF Len(p) <= 1 THEN p
    ELSE LET r == Collapsed(Tail(p))
         IN  IF p[1] = "/" /\ r[1] = "/" THEN r ELSE <<p[1]>> \o r

\* path with repeated '/' collapsed and a single leading '/'
NormalizedPath(p) == Collapsed(<<"/">> \o p)

SourceOf(e) == [repo_name |-> e.repo_name, file_path |-> e.file_path]

\* the candidate is one the reconciler keeps: method and path are non-empty
Kept(c) == c.method # <<>> /\ c.path # <<>>

CarriesKey(c, key) == Kept(c) /\ endpoint_key(c.method, c.path) = key

\* positions, among the first n candidates, of those carrying the key
Carriers(key, n) == {i \in 1..n : CarriesKey(all_endpoints[i], key)}

FirstCarrier(key, n) == CHOOSE i \in Carriers(key, n) : \A j \in Carriers(key, n) : i <= j

\* the distinct sources other than the primary among the first n candidates
\* carrying the key, in order of first arrival
RECURSIVE OtherSources(_, _, _)
OtherSources(key, primary, n) ==
    IF n = 0 THEN <<>>
    ELSE LET before == OtherSources(key, primary, n - 1)
             c == all_endpoints[n]
         IN  IF CarriesKey(c, key) /\ SourceOf(c) # primary /\ ~Contains(before, SourceOf(c))
             THEN Append(before, SourceOf(c))
             ELSE before

Reconciling == pc \in {"dedup", "done"}

\* what a stream of invocations leaves in the result files
ResultsOf(stream) ==
    [i \in DOMAIN stream |->
        parse_endpoints_from_response(stream[i].response, stream[i].repo_name,
                                      stream[i].file_path)]

\* the catalog is exactly one endpoint GET /api/users, primary (repoA, a.js),
\* alternative sources [(repoB, b.js)]
OneMergedEndpoint ==
    /\ Len(unique_endpoints) = 1
    /\ unique_endpoints[1].method = GET
    /\ unique_endpoints[1].path = ApiUsers
    /\ unique_endpoints[1].repo_name = "repoA"
    /\ unique_endpoints[1].file_path = "a.js"
    /\ unique_endpoints[1].alternative_sources
          = <<[repo_name |-> "repoB", file_path |-> "b.js"]>>

ScenarioTrailing ==
    <<[response |-> <<Item(GET, ApiUsers)>>, repo_name |-> "repoA", file_path |-> "a.js"],
      [response |-> <<Item(get, ApiUsersTrailing)>>, repo_name |-> "repoB",
       file_path |-> "b.js"]>>

ScenarioRepeated ==
    <<[response |-> <<Item(GET, ApiUsers)>>, repo_name |-> "repoA", file_path |-> "a.js"],
      [response |-> <<Item(get, ApiUsersDouble)>>, repo_name |-> "repoB",
       file_path |-> "b.js"]>>

(***************************************************************************)
(* C1: the catalog never holds two entries whose upper-cased method and    *)
(* normalized path (repeated '/' collapsed, single leading '/') are equal. *)
(***************************************************************************)
C1_UniqueNormalizedKeys ==
    Reconciling =>
        \A i, j \in DOMAIN unique_endpoints :
            ( /\ NormalizedMethod(unique_endpoints[i].method)
                    = NormalizedMethod(unique_endpoints[j].method)
              /\ NormalizedPath(unique_endpoints[i].path)
                    = NormalizedPath(unique_endpoints[j].path) )
            => i = j

\* a finished run where several candidates were folded and two keys remain
C1_Witness ==
    /\ pc = "done"
    /\ Len(unique_endpoints) = 2
    /\ \E i \in DOMAIN unique_endpoints :
          unique_endpoints[i].alternative_sources # <<>>

(***************************************************************************)
(* C2 as stated: GET /api/users from (repoA, a.js), then get /api/users/   *)
(* from (repoB, b.js), reconcile to the one endpoint GET /api/users with   *)
(* primary (repoA, a.js) and alternative sources [(repoB, b.js)].          *)
(***************************************************************************)
C2_TrailingSeparatorMerges ==
    (pc = "done" /\ results = ResultsOf(ScenarioTrailing)) => OneMergedEndpoint

(***************************************************************************)
(* C2 amended: the same with a second path that differs only by a          *)
(* repeated separator, /api//users.                                        *)
(***************************************************************************)
C2_RepeatedSeparatorMerges ==
    (pc = "done" /\ results = ResultsOf(ScenarioRepeated)) => OneMergedEndpoint

C2_Witness == pc = "done" /\ results = ResultsOf(ScenarioRepeated)

(***************************************************************************)
(* C3: during a run every key stays in the map, its primary source is the  *)
(* source of the first candidate that carried the key, and one processed   *)
(* candidate leaves an alternative-source list unchanged or appends        *)
(* exactly one element to it.                                              *)
(***************************************************************************)
C3_PrimaryIsFirstCarrier ==
    Reconciling =>
        \A i \in DOMAIN unique_endpoints :
            LET e == unique_endpoints[i]
            IN  /\ Carriers(e.key, idx) # {}
                /\ SourceOf(e) = SourceOf(all_endpoints[FirstCarrier(e.key, idx)])

C3_StepKeepsEntries ==
    (pc = "dedup" /\ idx' = idx + 1) =>
        \A i \in DOMAIN unique_endpoints :
            LET e == unique_endpoints[i]
            IN  /\ HasKey(unique_endpoints', e.key)
                /\ LET f == unique_endpoints'[KeyIndex(unique_endpoints', e.key)]
                       old == e.alternative_sources
                       new == f.alternative_sources
                   IN  /\ f.method = e.method
                       /\ f.path = e.path
                       /\ SourceOf(f) = SourceOf(e)
                       /\ \/ new = old
                          \/ /\ Len(new) = Len(old) + 1
                             /\ SubSeq(new, 1, Len(old)) = old

C3_EntriesOnlyGrow == [](C3_PrimaryIsFirstCarrier) /\ [][C3_StepKeepsEntries]_vars

\* a duplicate from another source has been folded into an existing entry
C3_Witness ==
    /\ pc = "dedup"
    /\ idx >= 2
    /\ \E i \in DOMAIN unique_endpoints :
          /\ unique_endpoints[i].alternative_sources # <<>>
          /\ FirstCarrier(unique_endpoints[i].key, idx) < idx

(***************************************************************************)
(* C4: alternativeSources has no duplicate, never holds the primary        *)
(* source, and is exactly the distinct sources other than the primary      *)
(* among the candidates with that key, in order of first arrival.          *)
(***************************************************************************)
C4_AlternativeSources ==
    Reconciling =>
        \A i \in DOMAIN unique_endpoints :
            LET e == unique_endpoints[i]
                alts == e.alternative_sources
            IN  /\ \A a, b \in DOMAIN alts : alts[a] = alts[b] => a = b
                /\ ~Contains(alts, SourceOf(e))
                /\ alts = OtherSources(e.key, SourceOf(e), idx)

\* an entry with two alternative sources
C4_Witness ==
    /\ pc = "done"
    /\ \E i \in DOMAIN unique_endpoints :
          Len(unique_endpoints[i].alternative_sources) = 2

(***************************************************************************)
(* C5: a candidate with an empty method or path leaves the map as it was,  *)
(* the loop goes on, and every kept candidate of the stream is in the map  *)
(* when the run ends.                                                      *)
(***************************************************************************)
C5_StepDropsMalformed ==
    (pc = "dedup" /\ idx < Len(all_endpoints) /\ ~Kept(all_endpoints[idx + 1])) =>
        /\ unique_endpoints' = unique_endpoints
        /\ idx' = idx + 1
        /\ pc' = "dedup"

C5_RestIsProcessed ==
    pc = "done" =>
        /\ idx = Len(all_endpoints)
        /\ \A i \in DOMAIN all_endpoints :
              Kept(all_endpoints[i]) =>
                  HasKey(unique_endpoints,
                         endpoint_key(all_endpoints[i].method, all_endpoints[i].path))
        /\ \A i \in DOMAIN unique_endpoints :
              unique_endpoints[i].method # <<>> /\ unique_endpoints[i].path # <<>>

C5_MalformedDropped == [][C5_StepDropsMalformed]_vars /\ [](C5_RestIsProcessed)

\* a dropped candidate is followed by one that made it into the map
C5_Witness ==
    /\ pc = "done"
    /\ \E i \in DOMAIN all_endpoints :
          /\ ~Kept(all_endpoints[i])
          /\ i < Len(all_endpoints)
          /\ Kept(all_endpoints[i + 1])
          /\ unique_endpoints # <<>>

(***************************************************************************)
(* Vocabulary of the claims about splitting.                               *)
(***************************************************************************)
\* the text handed to chunk_by_size
SplitText == sections[1]

\* chunks joined in order with a single newline between consecutive chunks
RECURSIVE JoinedByNewline(_)
JoinedByNewline(cs) ==
    IF cs = <<>> THEN <<>>
    ELSE IF Len(cs) = 1 THEN cs[1]
    ELSE cs[1] \o <<"\n">> \o JoinedByNewline(Tail(cs))

NewlinesIn(t) == {i \in DOMAIN t : t[i] = "\n"}

IsOneLine(t) == NewlinesIn(t) = {}

\* the lines of a text: the pieces between consecutive newlines
LinesOf(t) ==
    LET nl == NewlinesIn(t)
        Bound(k) == IF k = 0 THEN 0
                    ELSE IF k = Cardinality(nl) + 1 THEN Len(t) + 1
                    ELSE CHOOSE i \in nl : Cardinality({j \in nl : j <= i}) = k
    IN  [k \in 1..(Cardinality(nl) + 1) |-> SubSeq(t, Bound(k - 1) + 1, Bound(k) - 1)]

\* character count of lines joined by newline
JoinedLen(ls) == Len(JoinedByNewline(ls))

\* least number of chunks of consecutive whole lines, each a single line or
\* of at most limit characters when joined by newline
RECURSIVE MinChunks(_, _)
MinChunks(ls, limit) ==
    IF ls = <<>> THEN 0
    ELSE LET fits == {k \in 1..Len(ls) : k = 1 \/ JoinedLen(SubSeq(ls, 1, k)) <= limit}
             counts == {1 + MinChunks(SubSeq(ls, k + 1, Len(ls)), limit) : k \in fits}
         IN  CHOOSE c \in counts : \A d \in counts : c <= d

\* the chunks process_file produced from section i (0-based)
ChunksOfSection(i) == SelectSeq(chunks, LAMBDA c : c.chunk_id[1] = i)

(***************************************************************************)
(* C6: the chunks joined in order with single newlines are the input text. *)
(***************************************************************************)
C6_RoundTrip ==
    cpc = "chunked" =>
        /\ JoinedByNewline(sub_chunks) = SplitText
        /\ Flatten([k \in DOMAIN sub_chunks |-> LinesOf(sub_chunks[k])]) = LinesOf(SplitText)

\* a text split into several chunks, one of them holding more than one line
C6_Witness ==
    /\ cpc = "chunked"
    /\ Len(sub_chunks) >= 2
    /\ \E k \in DOMAIN sub_chunks : ~IsOneLine(sub_chunks[k])

(***************************************************************************)
(* C7: a chunk has at most B characters unless it is one single line       *)
(* longer than B, and every line longer than B is a chunk of its own.      *)
(***************************************************************************)
C7_WithinBudget ==
    cpc = "chunked" =>
        /\ \A k \in DOMAIN sub_chunks :
              \/ Len(sub_chunks[k]) <= max_size
              \/ IsOneLine(sub_chunks[k])
        /\ \A n \in DOMAIN LinesOf(SplitText) :
              Len(LinesOf(SplitText)[n]) > max_size
                  => \E k \in DOMAIN sub_chunks : sub_chunks[k] = LinesOf(SplitText)[n]

\* a split with an oversized single-line chunk next to a chunk within the budget
C7_Witness ==
    /\ cpc = "chunked"
    /\ \E k \in DOMAIN sub_chunks :
          IsOneLine(sub_chunks[k]) /\ Len(sub_chunks[k]) > max_size
    /\ \E k \in DOMAIN sub_chunks : Len(sub_chunks[k]) <= max_size

(***************************************************************************)
(* C8 as stated: the number of chunks is the least number of chunks of     *)
(* consecutive whole lines each of at most B characters (joined by         *)
(* newline) or a single line longer than B.                                *)
(***************************************************************************)
C8_MinimalForBudget ==
    cpc = "chunked" => Len(sub_chunks) = MinChunks(LinesOf(SplitText), max_size)

(***************************************************************************)
(* C8 amended: a text of at most B characters gives one chunk; a longer    *)
(* text gives the least number of chunks of consecutive whole lines each   *)
(* a single line or of at most B - 1 characters when joined by newline     *)
(* (one newline is charged per line).                                      *)
(***************************************************************************)
C8_MinimalForGreedyCost ==
    cpc = "chunked" =>
        IF Len(SplitText) <= max_size
        THEN Len(sub_chunks) = 1
        ELSE Len(sub_chunks) = MinChunks(LinesOf(SplitText), max_size - 1)

\* a text longer than the budget whose lines were grouped
C8_Witness ==
    /\ cpc = "chunked"
    /\ Len(SplitText) > max_size
    /\ Len(sub_chunks) < Len(LinesOf(SplitText))

(***************************************************************************)
(* C9: a section within the budget yields one chunk, not partial, with     *)
(* total_chunks 1 and the section as content; a section over the budget    *)
(* yields only partial chunks whose total_chunks is their number.          *)
(***************************************************************************)
C9_PartialIffOverBudget ==
    cpc = "processed" =>
        \A n \in DOMAIN sections :
            LET cs == ChunksOfSection(n - 1)
            IN  IF Len(sections[n]) <= max_size
                THEN /\ Len(cs) = 1
                     /\ cs[1].is_partial = FALSE
                     /\ cs[1].total_chunks = 1
                     /\ cs[1].content = sections[n]
                ELSE /\ Len(cs) >= 1
                     /\ \A k \in DOMAIN cs :
                           cs[k].is_partial = TRUE /\ cs[k].total_chunks = Len(cs)

\* a file with a section at the budget and a section split in several chunks
C9_Witness ==
    /\ cpc = "processed"
    /\ \E n \in DOMAIN sections : Len(sections[n]) = max_size
    /\ \E n \in DOMAIN sections :
          Len(sections[n]) > max_size /\ Len(ChunksOfSection(n - 1)) >= 2

(***************************************************************************)
(* Vocabulary of the claims about classification.                          *)
(***************************************************************************)
RoutesUsersJs == <<"r", "o", "u", "t", "e", "s", "/", "u", "s", "e", "r", "s", ".", "j", "s">>

NodeModulesRouterJs == <<"n", "o", "d", "e", "_", "m", "o", "d", "u", "l", "e", "s", "/", "e", "x", "p", "r", "e", "s", "s", "/", "l", "i", "b", "/", "r", "o", "u", "t", "e", "r", ".", "j", "s">>

\* the segments of a path: the pieces between consecutive '/'
SegmentsOf(t) ==
    LET sl == {i \in DOMAIN t : t[i] = "/"}
        Bound(k) == IF k = 0 THEN 0
                    ELSE IF k = Cardinality(sl) + 1 THEN Len(t) + 1
                    ELSE CHOOSE i \in sl : Cardinality({j \in sl : j <= i}) = k
    IN  [k \in 1..(Cardinality(sl) + 1) |-> SubSeq(t, Bound(k - 1) + 1, Bound(k) - 1)]

\* some segment begins with '.' or is a vendor/build directory name
HasBarredSegment(t) ==
    \E k \in DOMAIN SegmentsOf(t) :
        LET seg == SegmentsOf(t)[k]
        IN  \/ seg # <<>> /\ Head(seg) = "."
            \/ seg \in ExcludedNames

Selected(t) == Contains(api_files, t)

(***************************************************************************)
(* C10: a path with a segment that begins with '.' or equals one of        *)
(* node_modules, vendor, dist, build, target, venv is never selected;      *)
(* node_modules/express/lib/router.js is excluded, routes/users.js is      *)
(* selected.                                                               *)
(***************************************************************************)
C10_BarredNeverSelected ==
    dpc = "done" =>
        /\ HasBarredSegment(relative_path) => api_files = <<>>
        /\ relative_path = NodeModulesRouterJs => ~Selected(NodeModulesRouterJs)
        /\ relative_path = RoutesUsersJs => Selected(RoutesUsersJs)

\* a path below a vendor directory that matches an ecosystem rule was classified
C10_Witness ==
    /\ dpc = "done"
    /\ relative_path = NodeModulesRouterJs
    /\ matches_file_patterns(relative_path)
    /\ HasBarredSegment(relative_path)

(***************************************************************************)
(* Claims about extract_api_sections and process_file.                     *)
(***************************************************************************)
KnownLanguages == DOMAIN FUNCTION_SIGNATURES

\* no signature pattern of the file's language matches anywhere in content
NoSignatureMatch ==
    \A k \in DOMAIN FUNCTION_SIGNATURES[lang] :
        ~regex_search(FUNCTION_SIGNATURES[lang][k], content, 0).found

ChunkContents == [i \in DOMAIN chunks |-> chunks[i].content]

\* C11: for a file in a known language whose text holds no match of any
\* signature pattern of that language, process_file takes the whole content
\* as exactly one section, of index 0, and returns at least one chunk; the
\* chunks are those the size rule gives for the whole content.
C11_WholeFileIsOneSection ==
    (cpc = "processed" /\ lang \in KnownLanguages /\ NoSignatureMatch) =>
        /\ sections = <<content>>
        /\ chunks # <<>>
        /\ \A i \in DOMAIN chunks : chunks[i].chunk_id[1] = 0
        /\ IF Len(content) <= max_size
           THEN chunks = <<[chunk_id |-> <<0>>, content |-> content,
                            is_partial |-> FALSE, total_chunks |-> 1]>>
           ELSE /\ ChunkContents = chunk_by_size(content, max_size)
                /\ \A i \in DOMAIN chunks :
                      /\ chunks[i].chunk_id = <<0, i - 1>>
                      /\ chunks[i].is_partial
                      /\ chunks[i].total_chunks = Len(chunks)

\* a java file without a signature match that is cut into several chunks
C11_Witness ==
    /\ cpc = "processed"
    /\ lang = "java"
    /\ NoSignatureMatch
    /\ content # <<>>
    /\ Len(chunks) > 1

BraceLanguages == {"js", "ts", "java", "go"}

\* the scan the claims describe, over window from offset i: a nesting counter
\* depth for braces outside string literals, quote being the opening quote of
\* the literal the scan is in ("" outside).  close is the offset of the first
\* '}' at or after the end of the match that takes the counter from one to
\* zero, or -1; depth is the counter where the scan stopped.
RECURSIVE NestingScan(_, _, _, _, _)
NestingScan(window, i, depth, quote, match_len) ==
    IF i >= Len(window) THEN [close |-> -1, depth |-> depth]
    ELSE LET c == window[i + 1]
         IN  IF quote # ""
             THEN NestingScan(window, i + 1, depth, IF c = quote THEN "" ELSE quote,
                              match_len)
             ELSE IF c \in {"\"", "'"}
             THEN NestingScan(window, i + 1, depth, c, match_len)
             ELSE IF c = "{"
             THEN NestingScan(window, i + 1, depth + 1, quote, match_len)
             ELSE IF c = "}" /\ depth = 1 /\ i >= match_len
             THEN [close |-> i, depth |-> 0]
             ELSE IF c = "}" /\ depth > 0
             THEN NestingScan(window, i + 1, depth - 1, quote, match_len)
             ELSE NestingScan(window, i + 1, depth, quote, match_len)

\* the scan for the section of record r, from the start of its match to the
\* end of its forward window
ScanOf(r) ==
    NestingScan(Slice(content, r.start, r.block_end), 0, 0, "", r.match_end - r.start)

\* C13: in a brace-delimited language the forward scan from the match start
\* ends the section right after the first '}' after the match's end at which
\* the nesting counter returns to zero after having been positive, braces
\* inside quoted string literals not being counted; a '}' met while the
\* counter is zero and has never been positive does not end the section.
C13_EndsAtBalancingBrace ==
    (cpc = "processed" /\ lang \in BraceLanguages) =>
        \A i \in DOMAIN found :
            LET r == found[i]
                scan == ScanOf(r)
            IN  /\ scan.close # -1 => r.end = r.start + scan.close + 1
                /\ scan.close = -1 => ~r.broke

\* C14: in a brace-delimited language, when the braces opened in the forward
\* window never balance within it, the end of the section is the end of the
\* window.
C14_UnbalancedEndsAtWindow ==
    (cpc = "processed" /\ lang \in BraceLanguages) =>
        \A i \in DOMAIN found :
            LET r == found[i]
                scan == ScanOf(r)
            IN  (scan.close = -1 /\ scan.depth > 0 /\ ~r.broke) => r.end = r.block_end

\* the lines after the line containing the match of record r, up to the end
\* of its forward window
LinesAfter(r) == str_split(Slice(content, r.line_end + 1, r.block_end))

\* the offset of line i within the text the lines were split from
RECURSIVE LineOffset(_, _)
LineOffset(lines, i) ==
    IF i = 1 THEN 0 ELSE LineOffset(lines, i - 1) + Len(lines[i - 1]) + 1

IsBlank(line) == \A k \in DOMAIN line : line[k] \in SpaceChars

\* the indentation width of a line that is not blank
LeadingSpaces(line) ==
    CHOOSE n \in 0..(Len(line) - 1) :
        /\ \A k \in 1..n : line[k] \in SpaceChars
        /\ line[n + 1] \notin SpaceChars

FirstFilled(lines) ==
    CHOOSE i \in DOMAIN lines :
        ~IsBlank(lines[i]) /\ \A j \in 1..(i - 1) : IsBlank(lines[j])

\* the lines after the first non-blank line that are indented no deeper
Dedents(lines) ==
    {i \in DOMAIN lines :
        /\ i > FirstFilled(lines)
        /\ ~IsBlank(lines[i])
        /\ LeadingSpaces(lines[i]) <= LeadingSpaces(lines[FirstFilled(lines)])}

\* C15: in py, with w the indentation width of the first non-blank line after
\* the line containing the match, the section ends at the first later line
\* whose indentation is at most w, so that the indented block following the
\* match line is part of the section.
C15_EndsAtDedent ==
    (cpc = "processed" /\ lang = "py") =>
        \A i \in DOMAIN found :
            LET r == found[i]
                lines == LinesAfter(r)
                filled == \E k \in DOMAIN lines : ~IsBlank(lines[k])
                d == CHOOSE k \in Dedents(lines) : \A j \in Dedents(lines) : k <= j
            IN  (filled /\ Dedents(lines) # {}) =>
                    r.section = str_strip(Slice(content, r.context_start,
                                                r.line_end + 1 + LineOffset(lines, d)))

\* record r stands for a match of the pattern it names at the offset it names
IsMatchOf(r) ==
    LET m == regex_search(FUNCTION_SIGNATURES[lang][r.pattern], content, r.start)
    IN  m.found /\ m.start = r.start /\ m.end = r.match_end

\* C16 as stated: the sections of one file are emitted, and indexed, in the
\* left-to-right order of the positions of their signature matches, also
\* when the matches come from different signature patterns.
C16_OrderedByPosition ==
    cpc = "processed" =>
        \A i, j \in DOMAIN found : found[i].start < found[j].start => i < j

\* C16 amended: the sections of one file are emitted, and indexed, pattern by
\* pattern in the order of the language's list of signature patterns, and
\* within one pattern in the left-to-right order of its matches.
C16_OrderedByPatternThenPosition ==
    (cpc = "processed" /\ found # <<>>) =>
        /\ \A i \in DOMAIN found : IsMatchOf(found[i])
        /\ \A i, j \in DOMAIN found :
              i < j => \/ found[i].pattern < found[j].pattern
                       \/ /\ found[i].pattern = found[j].pattern
                          /\ found[i].start < found[j].start
        /\ sections = [i \in DOMAIN found |-> found[i].section]
        /\ \A k \in DOMAIN chunks : chunks[k].chunk_id[1] \in 0..(Len(found) - 1)
        /\ \A k, l \in DOMAIN chunks :
              k < l => chunks[k].chunk_id[1] <= chunks[l].chunk_id[1]

\* a file in which a match of a later pattern starts before a match of an
\* earlier pattern
C16_Witness ==
    /\ cpc = "processed"
    /\ \E i, j \in DOMAIN found :
          i < j /\ found[i].pattern < found[j].pattern /\ found[j].start < found[i].start

\* C17: for every signature match the section starts at the start offset of
\* the nearest line before the match, within the 500 characters before it,
\* that looks like a function/class/def/func declaration, also when the text
\* of that line occurs earlier in the window; without such a line the start
\* is max(0, matchStart - 500).
C17_StartsAtNearestDeclaration ==
    cpc = "processed" =>
        \A i \in DOMAIN found :
            LET r == found[i]
                window_start == Max(0, r.start - CONTEXT_CHARS)
                lines == str_split(Slice(content, window_start, r.start))
                decls == {k \in DOMAIN lines :
                             regex_search(DECLARATION_RE, lines[k], 0).found}
                nearest == CHOOSE k \in decls : \A j \in decls : j <= k
            IN  r.context_start = IF decls = {} THEN window_start
                                  ELSE window_start + LineOffset(lines, nearest)

(***************************************************************************)
(* Claims about parse_endpoints_from_response on the response text.        *)
(***************************************************************************)
\* the bracketed span the parser looks for, and its decoding
JsonSpan == regex_search(JSON_ARRAY_RE, response_text, 0)

DecodedSpan == json_loads(Slice(response_text, JsonSpan.start, JsonSpan.end))

\* an object holding both keys whose method is not a string
Unprocessable(val) ==
    /\ val.k = "obj"
    /\ has_key(val, MethodKey)
    /\ has_key(val, PathKey)
    /\ get_key(val, MethodKey).k # "str"

\* the response holds no bracketed span, or the span does not decode as
\* JSON, or an object of the decoded array cannot be processed
Malformed ==
    \/ ~JsonSpan.found
    \/ ~DecodedSpan.ok
    \/ \E i \in DOMAIN DecodedSpan.val.items : Unprocessable(DecodedSpan.val.items[i])

\* one of the fallback patterns matches somewhere in the response text
FallbackMatches ==
    \E k \in DOMAIN FALLBACK_PATTERNS :
        regex_search(FALLBACK_PATTERNS[k], response_text, 0).found

\* the number of matches re.findall reports over the three fallback patterns
RECURSIVE MatchCount(_)
MatchCount(k) ==
    IF k > Len(FALLBACK_PATTERNS) THEN 0
    ELSE Len(re_finditer(FALLBACK_PATTERNS[k], response_text, 0)) + MatchCount(k + 1)

FallbackMatchCount == MatchCount(1)

KeysOf(map) == {map[i].key : i \in DOMAIN map}

\* the primary source of an entry together with its alternative sources
SourcesOfEntry(e) ==
    {SourceOf(e)} \cup {e.alternative_sources[i] : i \in DOMAIN e.alternative_sources}

\* C18: reconciliation is insensitive to arrival order except for the choice
\* of primary: for two orders of the same multiset of candidates the outputs
\* have the same set of (method, path) keys, and for each key the same set
\* of sources formed by the primary source and the alternative sources.
C18_OrderInsensitive ==
    pc = "done" =>
        /\ KeysOf(unique_endpoints) = KeysOf(unique_shuffled)
        /\ \A i \in DOMAIN unique_endpoints, j \in DOMAIN unique_shuffled :
              unique_endpoints[i].key = unique_shuffled[j].key =>
                  SourcesOfEntry(unique_endpoints[i]) = SourcesOfEntry(unique_shuffled[j])

\* two orders whose outputs differ in the primary of a key that has three
\* sources
C18_Witness ==
    /\ pc = "done"
    /\ \E i \in DOMAIN unique_endpoints, j \in DOMAIN unique_shuffled :
          /\ unique_endpoints[i].key = unique_shuffled[j].key
          /\ SourceOf(unique_endpoints[i]) # SourceOf(unique_shuffled[j])
          /\ Len(unique_endpoints[i].alternative_sources) = 2

====
